---- MODULE Spec2Model ----
(***************************************************************************)
(* ACN marketplace coordinator (backend/src/routes/jobboard.ts,            *)
(* backend/src/routes/tasks.ts) with the Mongoose collections it writes    *)
(* (models.ts) and the ACNEscrow contract it calls through                 *)
(* services/escrow.ts.                                                     *)
(*                                                                         *)
(* Every Express handler is an async function: it runs without             *)
(* interruption from one awaited I/O operation to the next.  A step of a   *)
(* request is therefore "the awaited operation executes, then the code     *)
(* after it runs until the next operation is issued".  Several requests    *)
(* are in flight at once (one per slot) and their steps interleave.        *)
(*                                                                         *)
(* A Mongoose document is a private copy of the stored document;           *)
(* doc.save() writes only the paths whose value was changed on the copy    *)
(* ($set), and array pushes as $push.                                      *)
(***************************************************************************)
EXTENDS Integers, Sequences, FiniteSets, Bags, TLC

\* ---------------------------------------------------------------- bounds
MaxInFlight == 2      \* requests handled concurrently
MaxJobs == 1          \* job postings (and their tasks) ever created
MaxBids == 2          \* bids ever created
MaxAccepts == 2       \* accept requests that pass validation
MaxPatches == 1       \* status overrides that pass validation
MaxWorks == 2         \* work submissions that pass validation
MaxRefunds == 2       \* refund requests that reach the escrow call
MaxSettling == 2      \* tasks in progress when settlements are credited
MaxPolls == 2         \* poll() calls of one agent that can overlap
MaxSockets == 4       \* WebSockets the state-channel service creates

\* ------------------------------------------------------------ value sets
Slots == 1..MaxInFlight

\* creatorAddress given at job creation, and callerAddress values of later
\* requests ("" is an absent field).
CreatorWallets == {"0xAAA"}
CallerWallets == {"0xaaa", "0xBBB", ""}

\* worker ids sent by agents in bid and work bodies ("" is an absent field)
AgentIds == {"w1", "w2"}

\* agentId of work submissions
Workers == {"w1"}

Budgets == {0, 1}

validStatuses == {"open", "in-progress", "review", "settlement", "completed", "reversed"}

\* String.prototype.toLowerCase on the wallet strings of the model
toLowerCase(w) ==
  CASE w = "0xAAA" -> "0xaaa"
    [] w = "0xBBB" -> "0xbbb"
    [] OTHER -> w

\* ---------------------------------------------------------------- state
VARIABLES
  tasks,        \* Task collection: sequence, _id = index
  postings,     \* JobPosting collection: sequence, _id = index
  bids,         \* JobBid collection: sequence, _id = index
  activities,   \* Activity collection: bag of documents
  escrows,      \* ACNEscrow.escrows: bytes32 key -> Escrow
  escrowOn,     \* getEscrowService() is an instance ("on") or null ("off")
  agents,       \* Agent collection: _id -> document
  ensOn,        \* getENSRegistryService() is an instance ("on") or null ("off")
  started,      \* requests received so far, per bounded kind
  now,          \* Date.now(), in ticks
  ens,          \* the registrar contract and the calls made to it, per handle
  keyed,        \* EscrowService: the bytes32 keys computed so far, <<id, key>>
  worker,       \* an ACNAgent process: bidJobIds and its poll() calls in flight
  nitro,        \* the NitroliteService instance and its WebSockets
  reqs          \* per slot: the request being handled and its position

vars ==
  <<tasks, postings, bids, activities, escrows, escrowOn, agents, ensOn, started, now, ens,
    keyed, worker, nitro, reqs>>
store == <<tasks, postings, bids, activities, agents>>
clients == <<keyed, worker, nitro>>
config == <<escrowOn, ensOn, now, ens, clients>>
fixed == <<escrowOn, ensOn, started, now, ens, clients>>

\* --------------------------------------------------------- documents
\* TaskSchema defaults; 0 stands for null in the hash and date fields, and a
\* Date is kept as 1 (set).
NoTask ==
  [status |-> "open", creatorAddress |-> "", assignedAgents |-> <<>>,
   workResults |-> <<>>, escrowAmount |-> 0, escrowStatus |-> "none",
   escrowTxHash |-> 0, settlementHash |-> 0, settledAt |-> 0]

NoPosting == [taskId |-> 0, creatorAddress |-> "", budget |-> 0, status |-> "open"]

NoBid == [jobId |-> 0, agentId |-> "", proposedAmount |-> 0, accepted |-> FALSE]

NoBody ==
  [creatorAddress |-> "", budget |-> 0, callerAddress |-> "", bidId |-> 0,
   agentId |-> "", message |-> "", result |-> "", status |-> ""]

\* AgentSchema; exists = FALSE stands for an id with no document
NoAgent ==
  [exists |-> FALSE, ensName |-> "", walletAddress |-> "", reputation |-> 50,
   tasksCompleted |-> 0, tasksFailed |-> 0, subnameRegistered |-> FALSE]

Idle ==
  [kind |-> "idle", pc |-> "idle", id |-> 0, body |-> NoBody,
   task |-> NoTask, base |-> NoTask, posting |-> NoPosting, bid |-> NoBid,
   agent |-> NoAgent, tx |-> 0, code |-> 0, listed |-> {}, stamp |-> 0]

\* the handlers whose requests are counted against a bound
BoundedKinds == {"accept", "patch", "work", "refund", "register"}

\* a label of the registrar: registered on chain or not, and the number of
\* registerSubname calls made for it
NoSubname == [registered |-> FALSE, calls |-> 0]

\* new ACNAgent(...): nothing bid on, no poll() running; jobs are the jobs
\* of the fetched list that the for loop of a poll() has still to visit
NoPoll == [pc |-> "idle", jobs |-> <<>>]
NoWorker == [bidJobIds |-> {}, polls |-> [p \in 1..MaxPolls |-> NoPoll], fired |-> 0]

\* new NitroliteService(...): no socket, no timer; called is the last of
\* connect/reconnect/disconnect that the application called
NoNitro ==
  [ws |-> 0, sockets |-> <<>>, authenticated |-> FALSE, reconnectTimer |-> FALSE,
   reconnectAttempts |-> 0, called |-> "none"]

\* ACNEscrow.Escrow zero value
\* paidTo is the address the contract has transferred to, paid the total
\* value it has transferred for the key
NoEscrow ==
  [depositor |-> "", amount |-> 0, released |-> FALSE, refunded |-> FALSE, paidTo |-> "",
   paid |-> 0]

\* EscrowService.taskIdToBytes32: the hex id left-padded with zeros to 64
\* digits denotes the same number, so ids (numbers here) map to themselves.
taskIdToBytes32(taskId) == taskId

\* --------------------------------------------------------- helpers
\* The handler's private copy of a Task document.  Its arrays are only ever
\* pushed to (the pushes are part of the save steps) and sent back in the
\* response, so the copy keeps the scalar paths.
Copy(t) == [t EXCEPT !.workResults = <<>>, !.assignedAgents = <<>>]

\* Model.findById
Found(coll, id) == id \in 1..Len(coll)

\* doc.save() for one path: written only when the copy's value was changed
SaveField(stored, old, new) == IF new # old THEN new ELSE stored

\* Activity document as built by Activity.create (taskId, action and the
\* timestamp, which defaults to Date.now when the document is built; the
\* actor is not kept)
NewActivity(agentId, taskId, action, timestamp) ==
  [taskId |-> taskId, action |-> action, timestamp |-> timestamp]

\* The two services are created at startup when their private key is set.
\* Nothing depends on the choice before the first getXService() call, so the
\* model makes it at that call ("unread" until then) and keeps it fixed.
Service(flag) == IF flag = "unread" THEN {"on", "off"} ELSE {flag}

\* a response is delivered before any other request proceeds
Quiet == \A s \in Slots : reqs[s].pc # "done"

\* a new request can be received in slot s (the lowest free one)
CanStart(s) ==
  /\ Quiet
  /\ reqs[s].pc = "idle"
  /\ \A s2 \in Slots : s2 < s => reqs[s2].pc # "idle"

\* the request is counted against the bound of its kind
Count(kind, max) ==
  /\ started[kind] < max
  /\ started' = [started EXCEPT ![kind] = @ + 1]

\* request s is at position pc of handler kind
At(s, kind, pc) == Quiet /\ reqs[s].kind = kind /\ reqs[s].pc = pc

NewReq(kind, pc, id, body) ==
  [Idle EXCEPT !.kind = kind, !.pc = pc, !.id = id, !.body = body]

\* res.status(code).json(...) as the first thing the handler does
Reject(s, kind, id, body, code) ==
  reqs' = [reqs EXCEPT ![s] = [NewReq(kind, "done", id, body) EXCEPT !.code = code]]

Respond(s, code) ==
  [reqs EXCEPT ![s].pc = "done", ![s].code = code]

Goto(s, pc) == [reqs EXCEPT ![s].pc = pc]

\* --------------------------------------------------------------- Init
\* Empty job board; the worker w1 has registered (POST /api/agents inserts
\* reputation 50 and zero counters), w2 has not.
Init ==
  /\ tasks = <<>>
  /\ postings = <<>>
  /\ bids = <<>>
  /\ activities = EmptyBag
  /\ escrows = [k \in 1..MaxJobs |-> NoEscrow]
  /\ escrowOn = "unread"
  /\ ensOn = "unread"
  /\ agents = [a \in AgentIds |->
                 IF a = "w1"
                   THEN [NoAgent EXCEPT !.exists = TRUE, !.ensName = "w1.acn.eth",
                                        !.walletAddress = "0xW1"]
                 ELSE NoAgent]
  /\ started = [k \in BoundedKinds |-> 0]
  /\ now = 0
  /\ ens = [h \in AgentIds |-> NoSubname]
  /\ keyed = {}
  /\ worker = NoWorker
  /\ nitro = NoNitro
  /\ reqs = [s \in Slots |-> Idle]

\* the response has been sent; the slot is free again
Retire(s) ==
  /\ reqs[s].pc = "done"
  /\ reqs' = [reqs EXCEPT ![s] = Idle]
  /\ UNCHANGED <<store, escrows, fixed>>

\* ------------------------------------------------ POST /api/jobboard
\* validation, then Task.create
CreateJobStart(s, creatorAddress, budget) ==
  LET body == [NoBody EXCEPT !.creatorAddress = creatorAddress, !.budget = budget]
  IN
  /\ CanStart(s)
  /\ IF budget = 0 \/ creatorAddress = ""
     THEN /\ Reject(s, "createJob", 0, body, 400)
          /\ UNCHANGED tasks
     ELSE /\ Len(tasks) < MaxJobs
          /\ LET t == [NoTask EXCEPT !.creatorAddress = creatorAddress,
                                     !.escrowAmount = budget,
                                     !.escrowStatus = "held"]
             IN /\ tasks' = Append(tasks, t)
                /\ reqs' = [reqs EXCEPT ![s] =
                      NewReq("createJob", "posting", Len(tasks) + 1, body)]
  /\ UNCHANGED <<postings, bids, activities, agents, escrows, fixed>>

\* JobPosting.create.  The Nitrolite transfer that may follow touches no
\* stored document and both of its outcomes set task.escrowTxHash, so the
\* wait for it is part of the wait for task.save().
CreateJobPosting(s) ==
  /\ At(s, "createJob", "posting")
  /\ postings' = Append(postings,
        [taskId |-> reqs[s].id, creatorAddress |-> reqs[s].body.creatorAddress,
         budget |-> reqs[s].body.budget, status |-> "open"])
  /\ reqs' = Goto(s, "saveTx")
  /\ UNCHANGED <<tasks, bids, activities, agents, escrows, fixed>>

\* task.save() of escrowTxHash; Activity.create is issued
CreateJobSave(s) ==
  /\ At(s, "createJob", "saveTx")
  /\ tasks' = [tasks EXCEPT ![reqs[s].id].escrowTxHash = reqs[s].id]
  /\ reqs' = [reqs EXCEPT ![s].pc = "activity", ![s].stamp = now]
  /\ UNCHANGED <<postings, bids, activities, agents, escrows, fixed>>

\* svc?.isAuthenticated ? 'NITROLITE' : 'SYSTEM', kept as one token
EscrowActor == "NITROLITE|SYSTEM"

\* Activity.create ESCROW_LOCKED; 201
CreateJobActivity(s) ==
  /\ At(s, "createJob", "activity")
  /\ activities' = activities (+) SetToBag({NewActivity(EscrowActor, reqs[s].id, "ESCROW_LOCKED", reqs[s].stamp)})
  /\ reqs' = Respond(s, 201)
  /\ UNCHANGED <<tasks, postings, bids, agents, escrows, fixed>>

\* -------------------------------------------- POST /api/jobboard/:id/bid
\* bids created or about to be created
BidsClaimed == Len(bids) + Cardinality({s \in Slots : reqs[s].kind = "bid" /\ reqs[s].pc = "create"})

\* JobPosting.findById, validation; JobBid.create is issued
BidStart(s, id, agentId, message) ==
  LET body == [NoBody EXCEPT !.agentId = agentId, !.message = message]
  IN
  /\ CanStart(s)
  /\ IF ~Found(postings, id) THEN Reject(s, "bid", id, body, 404)
     ELSE IF agentId = "" \/ message = "" THEN Reject(s, "bid", id, body, 400)
     ELSE /\ BidsClaimed < MaxBids
          /\ reqs' = [reqs EXCEPT ![s] =
                [NewReq("bid", "create", id, body) EXCEPT !.posting = postings[id]]]
  /\ UNCHANGED <<store, escrows, fixed>>

\* JobBid.create (proposedAmount ?? posting.budget); Activity.create is issued
BidCreate(s) ==
  /\ At(s, "bid", "create")
  /\ bids' = Append(bids,
        [jobId |-> reqs[s].id, agentId |-> reqs[s].body.agentId,
         proposedAmount |-> reqs[s].posting.budget, accepted |-> FALSE])
  /\ reqs' = [reqs EXCEPT ![s].pc = "activity", ![s].stamp = now,
                          ![s].body.bidId = Len(bids) + 1]
  /\ UNCHANGED <<tasks, postings, activities, agents, escrows, fixed>>

\* Activity.create BID_SUBMITTED; 201
BidActivity(s) ==
  /\ At(s, "bid", "activity")
  /\ activities' = activities (+) SetToBag({NewActivity(reqs[s].body.agentId, reqs[s].posting.taskId, "BID_SUBMITTED", reqs[s].stamp)})
  /\ reqs' = Respond(s, 201)
  /\ UNCHANGED <<tasks, postings, bids, agents, escrows, fixed>>

\* ----------------------------------------- POST /api/jobboard/:id/accept
\* JobPosting.findById, body validation; Task.findById is issued
AcceptStart(s, id, bidId, callerAddress) ==
  LET body == [NoBody EXCEPT !.bidId = bidId, !.callerAddress = callerAddress]
  IN
  /\ CanStart(s)
  /\ IF ~Found(postings, id) THEN Reject(s, "accept", id, body, 404) /\ UNCHANGED started
     ELSE IF bidId = 0 THEN Reject(s, "accept", id, body, 400) /\ UNCHANGED started
     ELSE IF callerAddress = "" THEN Reject(s, "accept", id, body, 400) /\ UNCHANGED started
     ELSE /\ Count("accept", MaxAccepts)
          /\ reqs' = [reqs EXCEPT ![s] =
             [NewReq("accept", "loadTask", id, body) EXCEPT !.posting = postings[id]]]
  /\ UNCHANGED <<store, escrows, config>>

\* the gate with the comparison left out: any caller that names itself passes
AcceptAuthorizedAnyCaller(task, callerAddress) ==
  task.creatorAddress # "" /\ callerAddress # ""

\* the creator-only gate of the accept handler
AcceptAuthorized(task, callerAddress) ==
  toLowerCase(task.creatorAddress) = toLowerCase(callerAddress)

\* Task.findById(posting.taskId), creator-only gate; JobBid.findById is issued
AcceptLoadTask(s) ==
  /\ At(s, "accept", "loadTask")
  /\ LET tid == reqs[s].posting.taskId IN
     IF ~Found(tasks, tid) THEN reqs' = Respond(s, 404)
     ELSE IF ~AcceptAuthorized(tasks[tid], reqs[s].body.callerAddress)
          THEN reqs' = Respond(s, 403)
     ELSE reqs' = [reqs EXCEPT ![s].pc = "loadBid", ![s].task = Copy(tasks[tid]),
                               ![s].base = Copy(tasks[tid])]
  /\ UNCHANGED <<store, escrows, fixed>>

\* a handler that marks the posting before it looks for the bid
AcceptLoadBidAfterPosting(s) ==
  /\ At(s, "accept", "loadBid")
  /\ LET bidId == reqs[s].body.bidId IN
     IF ~Found(bids, bidId)
       THEN /\ reqs' = Respond(s, 404)
            /\ postings' = [postings EXCEPT ![reqs[s].id].status = "assigned"]
     ELSE /\ reqs' = [reqs EXCEPT ![s].pc = "saveBid", ![s].bid = bids[bidId]]
          /\ UNCHANGED postings
  /\ UNCHANGED <<tasks, bids, activities, agents, escrows, fixed>>

\* JobBid.findById(bidId); bid.accepted = true; bid.save() is issued
AcceptLoadBid(s) ==
  /\ At(s, "accept", "loadBid")
  /\ LET bidId == reqs[s].body.bidId IN
     IF ~Found(bids, bidId) THEN reqs' = Respond(s, 404)
     ELSE reqs' = [reqs EXCEPT ![s].pc = "saveBid", ![s].bid = bids[bidId]]
  /\ UNCHANGED <<store, escrows, fixed>>

\* bid.save(); posting.status = 'assigned'; posting.save() is issued
AcceptSaveBid(s) ==
  /\ At(s, "accept", "saveBid")
  /\ bids' = [bids EXCEPT ![reqs[s].body.bidId].accepted =
                 SaveField(@, reqs[s].bid.accepted, TRUE)]
  /\ reqs' = [reqs EXCEPT ![s].pc = "savePosting", ![s].bid.accepted = TRUE]
  /\ UNCHANGED <<tasks, postings, activities, agents, escrows, fixed>>

\* posting.save(); task.status = 'in-progress'; push; task.save() is issued
AcceptSavePosting(s) ==
  /\ At(s, "accept", "savePosting")
  /\ postings' = [postings EXCEPT ![reqs[s].id].status =
                     SaveField(@, reqs[s].posting.status, "assigned")]
  /\ reqs' = [reqs EXCEPT ![s].pc = "saveTask", ![s].posting.status = "assigned",
                          ![s].task.status = "in-progress"]
  /\ UNCHANGED <<tasks, bids, activities, agents, escrows, fixed>>

\* task.save(): $set status, $push assignedAgents; Activity.create is issued
AcceptSaveTask(s) ==
  /\ At(s, "accept", "saveTask")
  /\ LET tid == reqs[s].posting.taskId IN
     tasks' = [tasks EXCEPT
        ![tid].status = SaveField(@, reqs[s].base.status, reqs[s].task.status),
        ![tid].assignedAgents = Append(@, reqs[s].bid.agentId)]
  /\ reqs' = [reqs EXCEPT ![s].pc = "activity", ![s].stamp = now,
                          ![s].base = reqs[s].task]
  /\ UNCHANGED <<postings, bids, activities, agents, escrows, fixed>>

\* Activity.create BID_ACCEPTED; 200
AcceptActivity(s) ==
  /\ At(s, "accept", "activity")
  /\ activities' = activities (+) SetToBag({NewActivity(reqs[s].bid.agentId, reqs[s].posting.taskId, "BID_ACCEPTED", reqs[s].stamp)})
  /\ reqs' = Respond(s, 200)
  /\ UNCHANGED <<tasks, postings, bids, agents, escrows, fixed>>

\* ------------------------------------------------------- ACNEscrow.sol
\* deposit(taskId) payable: sent by the poster's wallet (permissionless)
deposit(k, sender, value) ==
  /\ Quiet
  /\ value > 0
  /\ escrows[k].amount = 0
  /\ escrows' = [escrows EXCEPT ![k] =
        [NoEscrow EXCEPT !.depositor = sender, !.amount = value]]
  /\ UNCHANGED <<store, fixed, reqs>>

\* the require()s without "Already settled"
SettleableAgain(e) == e.amount > 0

\* the require()s shared by release and refund; msg.sender is the owner,
\* the key the escrow service was initialised with
Settleable(e) == e.amount > 0 /\ ~e.released /\ ~e.refunded

\* escrow.address: the wallet of the escrow service, owner of the contract
EscrowAddress == "0xE5C"

\* receipts (tx hashes) of the release and the refund of a task
ReleaseTx(taskId) == 10 + taskId
RefundTx(taskId) == 20 + taskId

\* --------------------------------------- PATCH /api/tasks/:id/status
\* `STATUS_CHANGED_TO_${status.toUpperCase()}`
StatusChangedTo(status) ==
  CASE status = "open" -> "STATUS_CHANGED_TO_OPEN"
    [] status = "in-progress" -> "STATUS_CHANGED_TO_IN-PROGRESS"
    [] status = "review" -> "STATUS_CHANGED_TO_REVIEW"
    [] status = "settlement" -> "STATUS_CHANGED_TO_SETTLEMENT"
    [] status = "completed" -> "STATUS_CHANGED_TO_COMPLETED"
    [] OTHER -> "STATUS_CHANGED_TO_REVERSED"

\* Task.findById, validation; task.status = status; task.save() is issued
PatchStart(s, id, status) ==
  LET body == [NoBody EXCEPT !.status = status]
  IN
  /\ CanStart(s)
  /\ IF ~Found(tasks, id) THEN Reject(s, "patch", id, body, 404) /\ UNCHANGED started
     ELSE IF status \notin validStatuses THEN Reject(s, "patch", id, body, 400) /\ UNCHANGED started
     ELSE /\ Count("patch", MaxPatches)
          /\ reqs' = [reqs EXCEPT ![s] =
             [NewReq("patch", "save", id, body)
                EXCEPT !.base = Copy(tasks[id]),
                       !.task = [Copy(tasks[id]) EXCEPT !.status = status]]]
  /\ UNCHANGED <<store, escrows, config>>

\* task.save(); Activity.create is issued
PatchSave(s) ==
  /\ At(s, "patch", "save")
  /\ tasks' = [tasks EXCEPT ![reqs[s].id].status =
                  SaveField(@, reqs[s].base.status, reqs[s].task.status)]
  /\ reqs' = [reqs EXCEPT ![s].pc = "activity", ![s].stamp = now, ![s].base = reqs[s].task]
  /\ UNCHANGED <<postings, bids, activities, agents, escrows, fixed>>

\* Activity.create STATUS_CHANGED_TO_<X>; 200
PatchActivity(s) ==
  /\ At(s, "patch", "activity")
  /\ activities' = activities (+) SetToBag({NewActivity(IF reqs[s].body.agentId = "" THEN "SYSTEM" ELSE reqs[s].body.agentId,
                    reqs[s].id, StatusChangedTo(reqs[s].body.status), reqs[s].stamp)})
  /\ reqs' = Respond(s, 200)
  /\ UNCHANGED <<tasks, postings, bids, agents, escrows, fixed>>

\* ------------------------------------------ POST /api/tasks/:id/work
\* Task.findById, validation; workResults.push, status = 'settlement';
\* task.save() is issued
WorkStart(s, id, agentId, result) ==
  LET body == [NoBody EXCEPT !.agentId = agentId, !.result = result]
  IN
  /\ CanStart(s)
  /\ IF ~Found(tasks, id) THEN Reject(s, "work", id, body, 404) /\ UNCHANGED started
     ELSE IF agentId = "" \/ result = "" THEN Reject(s, "work", id, body, 400) /\ UNCHANGED started
     ELSE /\ Count("work", MaxWorks)
          /\ reqs' = [reqs EXCEPT ![s] =
             [NewReq("work", "save", id, body)
                EXCEPT !.base = Copy(tasks[id]),
                       !.task = [Copy(tasks[id]) EXCEPT !.status = "settlement"]]]
  /\ UNCHANGED <<store, escrows, config>>

\* task.save(): $push workResults, $set status; Activity.create is issued
WorkSave(s) ==
  /\ At(s, "work", "save")
  /\ tasks' = [tasks EXCEPT
        ![reqs[s].id].status = SaveField(@, reqs[s].base.status, reqs[s].task.status),
        ![reqs[s].id].workResults =
            Append(@, [agentId |-> reqs[s].body.agentId, result |-> reqs[s].body.result])]
  /\ reqs' = [reqs EXCEPT ![s].pc = "activity", ![s].stamp = now, ![s].base = reqs[s].task]
  /\ UNCHANGED <<postings, bids, activities, agents, escrows, fixed>>

\* Activity.create WORK_SUBMITTED; then the settlement branch on the copy's
\* escrowStatus: escrow.release is issued, or the task goes to review when
\* there is no escrow service, or the response is sent
WorkActivity(s) ==
  /\ At(s, "work", "activity")
  /\ activities' = activities (+) SetToBag({NewActivity(reqs[s].body.agentId, reqs[s].id, "WORK_SUBMITTED", reqs[s].stamp)})
  /\ \E escrow \in Service(escrowOn) :
        /\ escrowOn' = escrow
        /\ reqs' = IF escrow = "on" /\ reqs[s].task.escrowStatus = "held"
                     THEN Goto(s, "release")
                   ELSE IF escrow = "off"
                     THEN [reqs EXCEPT ![s].pc = "saveReview", ![s].task.status = "review"]
                   ELSE Respond(s, 200)
  /\ UNCHANGED <<tasks, postings, bids, agents, escrows, ensOn, started, now, ens, clients>>

\* the release bookkeeping without the status assignment
ReleasedStatusKept(copy, tx) ==
  [copy EXCEPT !.escrowStatus = "released", !.settlementHash = tx, !.settledAt = 1]

\* the copy after a successful release (tasks.ts lines 158-162)
Released(copy, tx) ==
  [copy EXCEPT !.escrowStatus = "released", !.settlementHash = tx,
               !.settledAt = 1, !.status = "completed"]

\* a handler whose catch block is missing: the failed call is taken for a
\* release
WorkReleaseFailureIgnored(s) ==
  /\ At(s, "work", "release")
  /\ LET k == taskIdToBytes32(reqs[s].id) IN
     \/ /\ Settleable(escrows[k])
        /\ escrows' = [escrows EXCEPT ![k].released = TRUE, ![k].paidTo = EscrowAddress,
                                      ![k].paid = @ + escrows[k].amount]
        /\ reqs' = [reqs EXCEPT ![s].pc = "saveSettled",
                                ![s].tx = ReleaseTx(reqs[s].id),
                                ![s].task = Released(@, ReleaseTx(reqs[s].id))]
     \/ /\ UNCHANGED escrows
        /\ reqs' = [reqs EXCEPT ![s].pc = "saveSettled",
                                ![s].task = Released(@, ReleaseTx(reqs[s].id))]
  /\ UNCHANGED <<store, fixed>>

\* escrow.release(taskId, escrow.address): the transaction is mined and the
\* copy is updated, or the call throws (revert, or the RPC is unreachable)
\* and the catch block sets status = 'review'
WorkRelease(s) ==
  /\ At(s, "work", "release")
  /\ LET k == taskIdToBytes32(reqs[s].id) IN
     \/ /\ Settleable(escrows[k])
        /\ escrows' = [escrows EXCEPT ![k].released = TRUE, ![k].paidTo = EscrowAddress,
                                      ![k].paid = @ + escrows[k].amount]
        /\ reqs' = [reqs EXCEPT ![s].pc = "saveSettled",
                                ![s].tx = ReleaseTx(reqs[s].id),
                                ![s].task = Released(@, ReleaseTx(reqs[s].id))]
     \/ /\ UNCHANGED escrows
        /\ reqs' = [reqs EXCEPT ![s].pc = "saveFailed", ![s].task.status = "review"]
  /\ UNCHANGED <<store, fixed>>

\* task.save() of one path set of the copy
SaveTask(stored, base, copy) ==
  [stored EXCEPT
     !.status = SaveField(@, base.status, copy.status),
     !.escrowStatus = SaveField(@, base.escrowStatus, copy.escrowStatus),
     !.settlementHash = SaveField(@, base.settlementHash, copy.settlementHash),
     !.settledAt = IF copy.settledAt # base.settledAt \/ copy.settlementHash # base.settlementHash
                   THEN copy.settledAt ELSE @]

\* task.save() after a successful release; Activity.create is issued
WorkSaveSettled(s) ==
  /\ At(s, "work", "saveSettled")
  /\ tasks' = [tasks EXCEPT ![reqs[s].id] = SaveTask(@, reqs[s].base, reqs[s].task)]
  /\ reqs' = [reqs EXCEPT ![s].pc = "activitySettled", ![s].stamp = now, ![s].base = reqs[s].task]
  /\ UNCHANGED <<postings, bids, activities, agents, escrows, fixed>>

\* Activity.create PAYMENT_SETTLED; Agent.findById is issued when the ENS
\* registry service exists, else 200
WorkActivitySettled(s) ==
  /\ At(s, "work", "activitySettled")
  /\ activities' = activities (+) SetToBag({NewActivity("ARC_ESCROW", reqs[s].id, "PAYMENT_SETTLED", reqs[s].stamp)})
  /\ \E ensRegistry \in Service(ensOn) :
        /\ ensOn' = ensRegistry
        /\ reqs' = IF ensRegistry = "on" THEN Goto(s, "findAgent") ELSE Respond(s, 200)
  /\ UNCHANGED <<tasks, postings, bids, agents, escrows, escrowOn, started, now, ens, clients>>

\* Agent.findById(agentId); for an agent with an ensName the counters are
\* raised on the copy and agent.save() is issued, else 200
WorkFindAgent(s) ==
  /\ At(s, "work", "findAgent")
  /\ LET a == agents[reqs[s].body.agentId] IN
     reqs' = IF a.exists /\ a.ensName # ""
               THEN [reqs EXCEPT ![s].pc = "saveAgent", ![s].agent = a]
             ELSE Respond(s, 200)
  /\ UNCHANGED <<store, escrows, fixed>>

\* the increment without the cap
BoostUncapped(reputation) == reputation + 2

\* Math.min(100, (agent.reputation ?? 50) + 2)
Boost(reputation) == IF reputation + 2 > 100 THEN 100 ELSE reputation + 2

\* agent.save(); ensRegistry.updateReputation is issued
WorkSaveAgent(s) ==
  /\ At(s, "work", "saveAgent")
  /\ LET old == reqs[s].agent
         new == [old EXCEPT !.tasksCompleted = @ + 1, !.reputation = Boost(@)]
     IN /\ agents' = [agents EXCEPT
              ![reqs[s].body.agentId].tasksCompleted =
                  SaveField(@, old.tasksCompleted, new.tasksCompleted),
              ![reqs[s].body.agentId].reputation =
                  SaveField(@, old.reputation, new.reputation)]
        /\ reqs' = [reqs EXCEPT ![s].pc = "ensUpdate", ![s].agent = new]
  /\ UNCHANGED <<tasks, postings, bids, activities, escrows, fixed>>

\* a handler without the inner try: the error of the ENS update reaches the
\* catch block of the settlement, which sets status review and saves
WorkEnsUpdateUncaught(s) ==
  /\ At(s, "work", "ensUpdate")
  /\ \/ reqs' = Respond(s, 200)
     \/ reqs' = [reqs EXCEPT ![s].pc = "saveFailed", ![s].task.status = "review"]
  /\ UNCHANGED <<store, escrows, fixed>>

\* ensRegistry.updateReputation resolves or throws (caught, non-fatal); 200
WorkEnsUpdate(s) ==
  /\ At(s, "work", "ensUpdate")
  /\ reqs' = Respond(s, 200)
  /\ UNCHANGED <<store, escrows, fixed>>

\* task.save() in the catch block; Activity.create is issued
WorkSaveFailed(s) ==
  /\ At(s, "work", "saveFailed")
  /\ tasks' = [tasks EXCEPT ![reqs[s].id] = SaveTask(@, reqs[s].base, reqs[s].task)]
  /\ reqs' = [reqs EXCEPT ![s].pc = "activityFailed", ![s].stamp = now, ![s].base = reqs[s].task]
  /\ UNCHANGED <<postings, bids, activities, agents, escrows, fixed>>

\* Activity.create SETTLEMENT_FAILED; 200
WorkActivityFailed(s) ==
  /\ At(s, "work", "activityFailed")
  /\ activities' = activities (+) SetToBag({NewActivity("ARC_ESCROW", reqs[s].id, "SETTLEMENT_FAILED", reqs[s].stamp)})
  /\ reqs' = Respond(s, 200)
  /\ UNCHANGED <<tasks, postings, bids, agents, escrows, fixed>>

\* task.save() of status 'review' when there is no escrow service; 200
WorkSaveReview(s) ==
  /\ At(s, "work", "saveReview")
  /\ tasks' = [tasks EXCEPT ![reqs[s].id] = SaveTask(@, reqs[s].base, reqs[s].task)]
  /\ reqs' = [Respond(s, 200) EXCEPT ![s].base = reqs[s].task]
  /\ UNCHANGED <<postings, bids, activities, agents, escrows, fixed>>

\* ---------------------------------------- POST /api/tasks/:id/refund
\* the gate with the comparison left out: any caller that names itself passes
RefundAuthorizedAnyCaller(task, callerAddress) ==
  task.creatorAddress # "" /\ callerAddress # ""

\* the creator-only gate of the refund handler
RefundAuthorized(task, callerAddress) ==
  /\ callerAddress # ""
  /\ toLowerCase(task.creatorAddress) = toLowerCase(callerAddress)

\* the gate that only turns away a task already refunded
RefundableUnlessRefunded(task) == task.escrowStatus # "refunded"

\* the escrowStatus gate of the refund handler
Refundable(task) == task.escrowStatus = "held"

\* the refund bookkeeping without the status assignment
RefundedStatusKept(copy, tx) ==
  [copy EXCEPT !.escrowStatus = "refunded", !.settlementHash = tx, !.settledAt = 1]

\* the copy after a successful refund (tasks.ts lines 246-250)
Refunded(copy, tx) ==
  [copy EXCEPT !.escrowStatus = "refunded", !.status = "reversed",
               !.settlementHash = tx, !.settledAt = 1]

\* Task.findById, creator gate, escrowStatus gate; escrow.refund is issued
RefundStart(s, id, callerAddress) ==
  LET body == [NoBody EXCEPT !.callerAddress = callerAddress]
  IN
  /\ CanStart(s)
  /\ IF ~Found(tasks, id) THEN Reject(s, "refund", id, body, 404) /\ UNCHANGED <<started, escrowOn>>
     ELSE IF ~RefundAuthorized(tasks[id], callerAddress)
       THEN Reject(s, "refund", id, body, 403) /\ UNCHANGED <<started, escrowOn>>
     ELSE IF ~Refundable(tasks[id])
       THEN Reject(s, "refund", id, body, 400) /\ UNCHANGED <<started, escrowOn>>
     ELSE \E escrow \in Service(escrowOn) :
        /\ escrowOn' = escrow
        /\ IF escrow = "off" THEN Reject(s, "refund", id, body, 503) /\ UNCHANGED started
           ELSE /\ Count("refund", MaxRefunds)
                /\ reqs' = [reqs EXCEPT ![s] =
                      [NewReq("refund", "refund", id, body)
                         EXCEPT !.base = Copy(tasks[id]), !.task = Copy(tasks[id])]]
  /\ UNCHANGED <<store, escrows, ensOn, now, ens, clients>>

\* a handler whose catch block is missing: the failed call is taken for a
\* refund
RefundCallFailureIgnored(s) ==
  /\ At(s, "refund", "refund")
  /\ LET k == taskIdToBytes32(reqs[s].id) IN
     \/ /\ Settleable(escrows[k])
        /\ escrows' = [escrows EXCEPT ![k].refunded = TRUE, ![k].paidTo = escrows[k].depositor,
                                      ![k].paid = @ + escrows[k].amount]
        /\ reqs' = [reqs EXCEPT ![s].pc = "save",
                                ![s].tx = RefundTx(reqs[s].id),
                                ![s].task = Refunded(@, RefundTx(reqs[s].id))]
     \/ /\ UNCHANGED escrows
        /\ reqs' = [reqs EXCEPT ![s].pc = "save",
                                ![s].task = Refunded(@, RefundTx(reqs[s].id))]
  /\ UNCHANGED <<store, fixed>>

\* escrow.refund(taskId): the transaction is mined and the copy is updated,
\* or the call throws and 500 is sent
RefundCall(s) ==
  /\ At(s, "refund", "refund")
  /\ LET k == taskIdToBytes32(reqs[s].id) IN
     \/ /\ Settleable(escrows[k])
        /\ escrows' = [escrows EXCEPT ![k].refunded = TRUE, ![k].paidTo = escrows[k].depositor,
                                      ![k].paid = @ + escrows[k].amount]
        /\ reqs' = [reqs EXCEPT ![s].pc = "save",
                                ![s].tx = RefundTx(reqs[s].id),
                                ![s].task = Refunded(@, RefundTx(reqs[s].id))]
     \/ /\ UNCHANGED escrows
        /\ reqs' = Respond(s, 500)
  /\ UNCHANGED <<store, fixed>>

\* task.save(); Activity.create is issued
RefundSave(s) ==
  /\ At(s, "refund", "save")
  /\ tasks' = [tasks EXCEPT ![reqs[s].id] = SaveTask(@, reqs[s].base, reqs[s].task)]
  /\ reqs' = [reqs EXCEPT ![s].pc = "activity", ![s].stamp = now, ![s].base = reqs[s].task]
  /\ UNCHANGED <<postings, bids, activities, agents, escrows, fixed>>

\* Activity.create REFUND_PROCESSED; 200
RefundActivity(s) ==
  /\ At(s, "refund", "activity")
  /\ activities' = activities (+) SetToBag({NewActivity("ARC_ESCROW", reqs[s].id, "REFUND_PROCESSED", reqs[s].stamp)})
  /\ reqs' = Respond(s, 200)
  /\ UNCHANGED <<tasks, postings, bids, agents, escrows, fixed>>

\* ---------------------------------------------------------------- Next
JobIds == 1..MaxJobs
BidIds == 0..MaxBids

\* requests arriving
CreateJobArrives ==
  \E s \in Slots, w \in CreatorWallets \cup {""}, b \in Budgets : CreateJobStart(s, w, b)

BidArrives ==
  \E s \in Slots, id \in JobIds, a \in AgentIds \cup {""}, m \in {"", "bid"} : BidStart(s, id, a, m)

AcceptArrives ==
  \E s \in Slots, id \in JobIds, b \in BidIds, w \in CallerWallets : AcceptStart(s, id, b, w)

PatchArrives ==
  \E s \in Slots, id \in JobIds, st \in validStatuses \cup {"bogus"} : PatchStart(s, id, st)

WorkArrives ==
  \E s \in Slots, id \in JobIds, a \in Workers \cup {""}, r \in {"", "result"} : WorkStart(s, id, a, r)

RefundArrives ==
  \E s \in Slots, id \in JobIds, w \in CallerWallets : RefundStart(s, id, w)

\* the poster's wallet deposits on chain
DepositNext == \E k \in JobIds, w \in CreatorWallets : deposit(taskIdToBytes32(k), w, 1)

\* the awaited operation of request s completes and its handler runs on
CreateJobStep(s) ==
  \/ CreateJobPosting(s)
  \/ CreateJobSave(s)
  \/ CreateJobActivity(s)

BidStep(s) ==
  \/ BidCreate(s)
  \/ BidActivity(s)

AcceptStep(s) ==
  \/ AcceptLoadTask(s)
  \/ AcceptLoadBid(s)
  \/ AcceptSaveBid(s)
  \/ AcceptSavePosting(s)
  \/ AcceptSaveTask(s)
  \/ AcceptActivity(s)

PatchStep(s) ==
  \/ PatchSave(s)
  \/ PatchActivity(s)

WorkStep(s) ==
  \/ WorkSave(s)
  \/ WorkActivity(s)
  \/ WorkRelease(s)
  \/ WorkSaveSettled(s)
  \/ WorkActivitySettled(s)
  \/ WorkFindAgent(s)
  \/ WorkSaveAgent(s)
  \/ WorkEnsUpdate(s)
  \/ WorkSaveFailed(s)
  \/ WorkActivityFailed(s)
  \/ WorkSaveReview(s)

RefundStep(s) ==
  \/ RefundCall(s)
  \/ RefundSave(s)
  \/ RefundActivity(s)

\* the job board: postings, bids and their acceptance
BoardStep(s) == Retire(s) \/ CreateJobStep(s) \/ BidStep(s) \/ AcceptStep(s)

NextBoard ==
  \/ CreateJobArrives
  \/ BidArrives
  \/ AcceptArrives
  \/ \E s \in Slots : BoardStep(s)

SpecBoard == Init /\ [][NextBoard]_vars

\* the life of a task after its creation: escrow deposit, status override,
\* work submission with settlement, refund
TaskStep(s) == Retire(s) \/ CreateJobStep(s) \/ PatchStep(s) \/ WorkStep(s) \/ RefundStep(s)

NextTasks ==
  \/ CreateJobArrives
  \/ DepositNext
  \/ PatchArrives
  \/ WorkArrives
  \/ RefundArrives
  \/ \E s \in Slots : TaskStep(s)

SpecTasks == Init /\ [][NextTasks]_vars

\* Every awaited operation completes (the store answers, the RPC call
\* resolves or rejects) and the event loop then runs the continuation; no
\* request is obliged to arrive.
LiveTasks == SpecTasks /\ \A s \in Slots : SF_vars(TaskStep(s))

\* The process stops and is started again: the requests being handled are
\* lost with their local variables; the store and the chain keep what was
\* written.  The startup code connects and initialises the services and
\* reads no Task.
Crash ==
  /\ Quiet
  /\ \E s \in Slots : reqs[s].pc # "idle"
  /\ reqs' = [s \in Slots |-> Idle]
  /\ UNCHANGED <<store, escrows, fixed>>

\* work submission and settlement on a server that may stop and restart
RecoveryStep(s) == Retire(s) \/ CreateJobStep(s) \/ WorkStep(s)

NextRecovery ==
  \/ CreateJobArrives
  \/ DepositNext
  \/ WorkArrives
  \/ Crash
  \/ \E s \in Slots : RecoveryStep(s)

SpecRecovery == Init /\ [][NextRecovery]_vars

\* every awaited operation of a running handler completes; neither a crash
\* nor the arrival of a request is obliged to happen
LiveRecovery == SpecRecovery /\ \A s \in Slots : SF_vars(RecoveryStep(s))

\* Settlements credited to a worker.  The job board has been used before:
\* MaxSettling tasks are in progress, each with its bid of worker w1
\* accepted and its escrow deposited, and w1 has the record of a newcomer
\* or of a veteran of 24 or 25 settled tasks.
Veterans == {<<50, 0>>, <<98, 24>>, <<100, 25>>}

InitCredit ==
  /\ tasks = [t \in 1..MaxSettling |->
        [NoTask EXCEPT !.status = "in-progress", !.creatorAddress = "0xAAA",
                       !.assignedAgents = <<"w1">>, !.escrowAmount = 1,
                       !.escrowStatus = "held", !.escrowTxHash = t]]
  /\ postings = [t \in 1..MaxSettling |->
        [taskId |-> t, creatorAddress |-> "0xAAA", budget |-> 1, status |-> "assigned"]]
  /\ bids = [t \in 1..MaxSettling |->
        [jobId |-> t, agentId |-> "w1", proposedAmount |-> 1, accepted |-> TRUE]]
  /\ activities = SetToBag(
        {NewActivity(a[1], t, a[2], 0) :
           t \in 1..MaxSettling,
           a \in {<<EscrowActor, "ESCROW_LOCKED">>, <<"w1", "BID_SUBMITTED">>,
                  <<"w1", "BID_ACCEPTED">>}})
  /\ escrows = [k \in 1..MaxSettling |->
        [NoEscrow EXCEPT !.depositor = "0xAAA", !.amount = 1]]
  /\ escrowOn = "unread"
  /\ ensOn = "unread"
  /\ \E v \in Veterans :
        agents = [a \in AgentIds |->
                    IF a = "w1"
                      THEN [NoAgent EXCEPT !.exists = TRUE, !.ensName = "w1.acn.eth",
                                           !.walletAddress = "0xW1",
                                           !.reputation = v[1], !.tasksCompleted = v[2]]
                    ELSE NoAgent]
  /\ started = [k \in BoundedKinds |-> 0]
  /\ now = 0
  /\ ens = [h \in AgentIds |-> NoSubname]
  /\ keyed = {}
  /\ worker = NoWorker
  /\ nitro = NoNitro
  /\ reqs = [s \in Slots |-> Idle]

WorkCreditArrives ==
  \E s \in Slots, id \in 1..MaxSettling, a \in Workers \cup {""}, r \in {"", "result"} :
    WorkStart(s, id, a, r)

CreditStep(s) == Retire(s) \/ WorkStep(s)

NextCredit ==
  \/ WorkCreditArrives
  \/ \E s \in Slots : CreditStep(s)

SpecCredit == InitCredit /\ [][NextCredit]_vars

\* Posting jobs with any number as budget (req.body.budget is not checked
\* beyond being truthy), and bidding on them.
AnyBudgets == {-1, 0, 1}

CreateJobPosts ==
  \E s \in Slots, w \in CreatorWallets \cup {""}, b \in AnyBudgets : CreateJobStart(s, w, b)

PostStep(s) == Retire(s) \/ CreateJobStep(s) \/ BidStep(s)

NextPost ==
  \/ CreateJobPosts
  \/ BidArrives
  \/ \E s \in Slots : PostStep(s)

SpecPost == Init /\ [][NextPost]_vars

\* ------------------------- GET /api/tasks, GET /api/tasks/activity/feed
\* The address of the query string is text the caller chooses; here a wallet
\* string is the sequence of its characters.
MaxLen == 2
Chars == {"a", "A", "b", ".", "*"}
Addresses == UNION {[1..n -> Chars] : n \in 0..MaxLen}
StoredCreators == {<<"a">>, <<"A", "b">>, <<"b">>}

\* the flag 'i' of the RegExp
FoldCase(c) == IF c = "A" THEN "a" ELSE c

FoldAll(w) == [i \in 1..Len(w) |-> FoldCase(w[i])]

\* new RegExp(source): a quantifier with nothing to repeat is a SyntaxError
Compiles(source) ==
  \A i \in 1..Len(source) :
    source[i] = "*" => i > 1 /\ source[i - 1] # "*"

\* one pattern character against one character of the text
AtomMatches(a, c) == a = "." \/ FoldCase(a) = FoldCase(c)

\* new RegExp(`^${requesterAddress}$`, 'i') against the whole text
RECURSIVE Matches(_, _)
Matches(source, text) ==
  IF source = <<>> THEN text = <<>>
  ELSE IF Len(source) >= 2 /\ source[2] = "*"
    THEN \/ Matches(SubSeq(source, 3, Len(source)), text)
         \/ /\ text # <<>>
            /\ AtomMatches(source[1], text[1])
            /\ Matches(source, Tail(text))
  ELSE /\ text # <<>>
       /\ AtomMatches(source[1], text[1])
       /\ Matches(Tail(source), Tail(text))

\* Task.find({creatorAddress: {$regex: ...}}): the ids of the matching tasks
FindByCreator(requesterAddress) ==
  {t \in 1..Len(tasks) : Matches(requesterAddress, tasks[t].creatorAddress)}

\* GET /api/tasks?address=: [] without an address, else Task.find is issued
\* (new RegExp throws on a source that does not compile)
ListStart(s, requesterAddress) ==
  LET body == [NoBody EXCEPT !.callerAddress = requesterAddress]
  IN
  /\ CanStart(s)
  /\ IF requesterAddress = <<>>
       THEN reqs' = [reqs EXCEPT ![s] = [NewReq("list", "done", 0, body) EXCEPT !.code = 200]]
     ELSE IF ~Compiles(requesterAddress) THEN Reject(s, "list", 0, body, 500)
     ELSE reqs' = [reqs EXCEPT ![s] = NewReq("list", "find", 0, body)]
  /\ UNCHANGED <<store, escrows, fixed>>

\* Task.find; res.json(tasks)
ListFind(s) ==
  /\ At(s, "list", "find")
  /\ reqs' = [Respond(s, 200) EXCEPT ![s].listed = FindByCreator(reqs[s].body.callerAddress)]
  /\ UNCHANGED <<store, escrows, fixed>>

\* GET /api/tasks/activity/feed?address=: the same test, Task.find is issued
FeedStart(s, requesterAddress) ==
  LET body == [NoBody EXCEPT !.callerAddress = requesterAddress]
  IN
  /\ CanStart(s)
  /\ IF requesterAddress = <<>>
       THEN reqs' = [reqs EXCEPT ![s] = [NewReq("feed", "done", 0, body) EXCEPT !.code = 200]]
     ELSE IF ~Compiles(requesterAddress) THEN Reject(s, "feed", 0, body, 500)
     ELSE reqs' = [reqs EXCEPT ![s] = NewReq("feed", "find", 0, body)]
  /\ UNCHANGED <<store, escrows, fixed>>

\* Task.find(...).select('_id'): userTaskIds; Activity.find is issued
FeedFind(s) ==
  /\ At(s, "feed", "find")
  /\ reqs' = [reqs EXCEPT ![s].pc = "findActivities",
                          ![s].listed = FindByCreator(reqs[s].body.callerAddress)]
  /\ UNCHANGED <<store, escrows, fixed>>

\* Activity.find({taskId: {$in: userTaskIds}}); res.json(activities)
FeedFindActivities(s) ==
  /\ At(s, "feed", "findActivities")
  /\ reqs' = [Respond(s, 200) EXCEPT
                ![s].listed = {a \in BagToSet(activities) : a.taskId \in reqs[s].listed}]
  /\ UNCHANGED <<store, escrows, fixed>>

\* Two jobs have been posted by creators of StoredCreators.
InitList ==
  /\ \E c1 \in StoredCreators, c2 \in StoredCreators :
        tasks = <<[NoTask EXCEPT !.creatorAddress = c1],
                  [NoTask EXCEPT !.creatorAddress = c2]>>
  /\ postings = <<>>
  /\ bids = <<>>
  /\ activities = SetToBag({NewActivity("SYSTEM", t, "ESCROW_LOCKED", 0) : t \in 1..2})
  /\ escrows = [k \in 1..MaxJobs |-> NoEscrow]
  /\ escrowOn = "unread"
  /\ ensOn = "unread"
  /\ agents = [a \in AgentIds |-> NoAgent]
  /\ started = [k \in BoundedKinds |-> 0]
  /\ now = 0
  /\ ens = [h \in AgentIds |-> NoSubname]
  /\ keyed = {}
  /\ worker = NoWorker
  /\ nitro = NoNitro
  /\ reqs = [s \in Slots |-> Idle]

ListArrives == \E s \in Slots, w \in Addresses : ListStart(s, w)

FeedArrives == \E s \in Slots, w \in Addresses : FeedStart(s, w)

ListStep(s) == Retire(s) \/ ListFind(s) \/ FeedFind(s) \/ FeedFindActivities(s)

NextList ==
  \/ ListArrives
  \/ FeedArrives
  \/ \E s \in Slots : ListStep(s)

SpecList == InitList /\ [][NextList]_vars

\* ------------------------------------------------------------- clock
MaxClock == 2

\* time passes between two steps of the server
Tick ==
  /\ now < MaxClock
  /\ now' = now + 1
  /\ UNCHANGED <<store, escrows, escrowOn, ensOn, started, ens, clients, reqs>>

\* posting jobs and overriding their status while the clock runs
ClockStep(s) == Retire(s) \/ CreateJobStep(s) \/ PatchStep(s)

NextClock ==
  \/ Tick
  \/ CreateJobArrives
  \/ PatchArrives
  \/ \E s \in Slots : ClockStep(s)

SpecClock == Init /\ [][NextClock]_vars

\* ------------------------------------------------- POST /api/agents
MaxRegisters == 2
AgentWallets == {"0xW1", ""}

\* validation; Agent.findOneAndUpdate (upsert by ensName) is issued
RegisterStart(s, ensName, walletAddress) ==
  LET body == [NoBody EXCEPT !.agentId = ensName, !.callerAddress = walletAddress]
  IN
  /\ CanStart(s)
  /\ IF ensName = "" \/ walletAddress = ""
       THEN Reject(s, "register", 0, body, 400) /\ UNCHANGED started
     ELSE /\ Count("register", MaxRegisters)
          /\ reqs' = [reqs EXCEPT ![s] = NewReq("register", "upsert", 0, body)]
  /\ UNCHANGED <<store, escrows, escrowOn, ensOn, now, ens, clients>>

\* findOneAndUpdate: $set on the document of the handle, $setOnInsert when
\* it is new.  Then, with an ENS service and subnameRegistered false on the
\* returned document, ens.registerSubname is called (it issues
\* registrar.isRegistered); else 201
RegisterUpsert(s) ==
  /\ At(s, "register", "upsert")
  /\ LET h == reqs[s].body.agentId
         doc == IF agents[h].exists
                  THEN [agents[h] EXCEPT !.walletAddress = reqs[s].body.callerAddress]
                ELSE [NoAgent EXCEPT !.exists = TRUE, !.ensName = h,
                                     !.walletAddress = reqs[s].body.callerAddress]
     IN /\ agents' = [agents EXCEPT ![h] = doc]
        /\ \E service \in Service(ensOn) :
              /\ ensOn' = service
              /\ IF service = "on" /\ ~doc.subnameRegistered
                   THEN /\ ens' = [ens EXCEPT ![h].calls = @ + 1]
                        /\ reqs' = [reqs EXCEPT ![s].pc = "isRegistered", ![s].agent = doc]
                 ELSE /\ reqs' = [Respond(s, 201) EXCEPT ![s].agent = doc]
                      /\ UNCHANGED ens
  /\ UNCHANGED <<tasks, postings, bids, activities, escrows, escrowOn, started, now, clients>>

\* registrar.isRegistered(node): a registered label is skipped and
\* findByIdAndUpdate is issued, else registrar.register is issued; when the
\* call throws, the handler catches and answers 201
RegisterCheck(s) ==
  /\ At(s, "register", "isRegistered")
  /\ \/ reqs' = Goto(s, IF ens[reqs[s].body.agentId].registered THEN "saveSubname" ELSE "register")
     \/ reqs' = Respond(s, 201)
  /\ UNCHANGED <<store, escrows, fixed>>

\* registrar.register and tx.wait: the label is registered and
\* findByIdAndUpdate is issued; a taken label reverts, and any failure is
\* caught by the handler, which answers 201
RegisterTx(s) ==
  /\ At(s, "register", "register")
  /\ LET h == reqs[s].body.agentId IN
     \/ /\ ~ens[h].registered
        /\ ens' = [ens EXCEPT ![h].registered = TRUE]
        /\ reqs' = Goto(s, "saveSubname")
     \/ /\ reqs' = Respond(s, 201)
        /\ UNCHANGED ens
  /\ UNCHANGED <<store, escrows, escrowOn, ensOn, started, now, clients>>

\* Agent.findByIdAndUpdate(agent._id, {subnameRegistered: true, ...}); 201
RegisterSaveSubname(s) ==
  /\ At(s, "register", "saveSubname")
  /\ agents' = [agents EXCEPT ![reqs[s].body.agentId].subnameRegistered = TRUE]
  /\ reqs' = [Respond(s, 201) EXCEPT ![s].agent.subnameRegistered = TRUE]
  /\ UNCHANGED <<tasks, postings, bids, activities, escrows, fixed>>

\* no agent has registered yet
InitAgents ==
  /\ tasks = <<>>
  /\ postings = <<>>
  /\ bids = <<>>
  /\ activities = EmptyBag
  /\ escrows = [k \in 1..MaxJobs |-> NoEscrow]
  /\ escrowOn = "unread"
  /\ ensOn = "unread"
  /\ agents = [a \in AgentIds |-> NoAgent]
  /\ started = [k \in BoundedKinds |-> 0]
  /\ now = 0
  /\ ens = [h \in AgentIds |-> NoSubname]
  /\ keyed = {}
  /\ worker = NoWorker
  /\ nitro = NoNitro
  /\ reqs = [s \in Slots |-> Idle]

RegisterArrives ==
  \E s \in Slots, h \in AgentIds \cup {""}, w \in AgentWallets : RegisterStart(s, h, w)

RegisterStep(s) ==
  \/ RegisterUpsert(s)
  \/ RegisterCheck(s)
  \/ RegisterTx(s)
  \/ RegisterSaveSubname(s)

AgentStep(s) == Retire(s) \/ RegisterStep(s)

NextAgents ==
  \/ RegisterArrives
  \/ \E s \in Slots : AgentStep(s)

SpecAgents == InitAgents /\ [][NextAgents]_vars

\* ------------------------------------ EscrowService.taskIdToBytes32
\* The ids as text: a string is the sequence of its characters.  An ObjectId
\* prints as 24 lower-case hex digits and a bytes32 as 64: here IdLen and
\* KeyLen digits over three of the sixteen.
IdLen == 2
KeyLen == 4
MaxKeys == 3
HexDigits == {"0", "1", "a"}

\* ids of any length up to IdLen, "x" included (as in a "0x" prefix)
HexStrings == UNION {[1..n -> HexDigits \cup {"x"}] : n \in 0..IdLen}

\* task._id.toString(): always IdLen digits
ObjectIds == [1..IdLen -> HexDigits]

\* taskId.replace(/^0x/, '')
StripPrefix(text) ==
  IF Len(text) >= 2 /\ text[1] = "0" /\ text[2] = "x"
    THEN SubSeq(text, 3, Len(text))
  ELSE text

\* String.prototype.padStart(width, '0'): a longer text is returned as it is
PadStart(text, width) ==
  IF Len(text) >= width THEN text
  ELSE [i \in 1..width |-> IF i <= width - Len(text) THEN "0" ELSE text[i - (width - Len(text))]]

\* taskIdToBytes32 on the text of the id (the characters after the "0x" of
\* the result)
TaskIdKey(taskId) == PadStart(StripPrefix(taskId), KeyLen)

\* deposit, release, refund and getEscrow each compute the key of their task
ComputeKey(taskId) ==
  /\ Quiet
  /\ Cardinality(keyed) < MaxKeys
  /\ <<taskId, TaskIdKey(taskId)>> \notin keyed
  /\ keyed' = keyed \cup {<<taskId, TaskIdKey(taskId)>>}
  /\ UNCHANGED <<store, escrows, escrowOn, ensOn, started, now, ens, worker, nitro, reqs>>

KeyArrives == \E id \in ObjectIds : ComputeKey(id)

NextKeys == KeyArrives

SpecKeys == Init /\ [][NextKeys]_vars

\* ------------------------------------- ACNEscrow.sol, called directly
\* accounts that send transactions to the contract; EscrowAddress deployed it
Senders == {"0xAAA", "0xBBB", EscrowAddress}
Recipients == {"0xW1", EscrowAddress}
Values == {0, 1, 2}

\* release(taskId, recipient) onlyOwner: a call that fails a require()
\* reverts and leaves the contract as it was
release(k, sender, recipient) ==
  /\ Quiet
  /\ sender = EscrowAddress
  /\ Settleable(escrows[k])
  /\ escrows' = [escrows EXCEPT ![k].released = TRUE, ![k].paidTo = recipient,
                                ![k].paid = @ + escrows[k].amount]
  /\ UNCHANGED <<store, fixed, reqs>>

\* refund without e.refunded = true
refundUnmarked(k, sender) ==
  /\ Quiet
  /\ sender = EscrowAddress
  /\ Settleable(escrows[k])
  /\ escrows' = [escrows EXCEPT ![k].paidTo = escrows[k].depositor,
                                ![k].paid = @ + escrows[k].amount]
  /\ UNCHANGED <<store, fixed, reqs>>

\* refund(taskId) onlyOwner
refund(k, sender) ==
  /\ Quiet
  /\ sender = EscrowAddress
  /\ Settleable(escrows[k])
  /\ escrows' = [escrows EXCEPT ![k].refunded = TRUE, ![k].paidTo = escrows[k].depositor,
                                ![k].paid = @ + escrows[k].amount]
  /\ UNCHANGED <<store, fixed, reqs>>

\* the deployed contract, no deposit yet
InitEscrow ==
  /\ tasks = <<>>
  /\ postings = <<>>
  /\ bids = <<>>
  /\ activities = EmptyBag
  /\ escrows = [k \in 1..MaxSettling |-> NoEscrow]
  /\ escrowOn = "unread"
  /\ ensOn = "unread"
  /\ agents = [a \in AgentIds |-> NoAgent]
  /\ started = [k \in BoundedKinds |-> 0]
  /\ now = 0
  /\ ens = [h \in AgentIds |-> NoSubname]
  /\ keyed = {}
  /\ worker = NoWorker
  /\ nitro = NoNitro
  /\ reqs = [s \in Slots |-> Idle]

DepositCalls == \E k \in 1..MaxSettling, a \in Senders, v \in Values : deposit(k, a, v)

ReleaseCalls == \E k \in 1..MaxSettling, a \in Senders, r \in Recipients : release(k, a, r)

RefundCalls == \E k \in 1..MaxSettling, a \in Senders : refund(k, a)

NextEscrow ==
  \/ DepositCalls
  \/ ReleaseCalls
  \/ RefundCalls

SpecEscrow == InitEscrow /\ [][NextEscrow]_vars

\* ----------------------------------------- accepting on two postings
\* The creator 0xAAA has posted two jobs and w1 has bid on the first.
InitCross ==
  /\ tasks = [t \in 1..2 |->
        [NoTask EXCEPT !.creatorAddress = "0xAAA", !.escrowAmount = 1,
                       !.escrowStatus = "held", !.escrowTxHash = t]]
  /\ postings = [t \in 1..2 |->
        [taskId |-> t, creatorAddress |-> "0xAAA", budget |-> 1, status |-> "open"]]
  /\ bids = <<[jobId |-> 1, agentId |-> "w1", proposedAmount |-> 1, accepted |-> FALSE]>>
  /\ activities = SetToBag({NewActivity(EscrowActor, 1, "ESCROW_LOCKED", 0),
                            NewActivity(EscrowActor, 2, "ESCROW_LOCKED", 0),
                            NewActivity("w1", 1, "BID_SUBMITTED", 0)})
  /\ escrows = [k \in 1..MaxJobs |-> NoEscrow]
  /\ escrowOn = "unread"
  /\ ensOn = "unread"
  /\ agents = [a \in AgentIds |->
                 IF a = "w1"
                   THEN [NoAgent EXCEPT !.exists = TRUE, !.ensName = "w1.acn.eth",
                                        !.walletAddress = "0xW1"]
                 ELSE NoAgent]
  /\ started = [k \in BoundedKinds |-> 0]
  /\ now = 0
  /\ ens = [h \in AgentIds |-> NoSubname]
  /\ keyed = {}
  /\ worker = NoWorker
  /\ nitro = NoNitro
  /\ reqs = [s \in Slots |-> Idle]

AcceptCrossArrives ==
  \E s \in Slots, id \in 1..2, b \in BidIds, w \in CallerWallets : AcceptStart(s, id, b, w)

CrossStep(s) == Retire(s) \/ AcceptStep(s)

NextCross ==
  \/ AcceptCrossArrives
  \/ \E s \in Slots : CrossStep(s)

SpecCross == InitCross /\ [][NextCross]_vars

\* ------------------------------------------- one request at a time
\* All the handlers of the job board and of the tasks, driven by a client
\* that waits for each response before it sends the next request.
SerialArrives ==
  /\ \A s \in Slots : reqs[s].pc = "idle"
  /\ \/ CreateJobArrives
     \/ BidArrives
     \/ AcceptArrives
     \/ PatchArrives
     \/ WorkArrives
     \/ RefundArrives

SerialStep(s) == BoardStep(s) \/ PatchStep(s) \/ WorkStep(s) \/ RefundStep(s)

NextSerial ==
  \/ SerialArrives
  \/ DepositNext
  \/ \E s \in Slots : SerialStep(s)

SpecSerial == Init /\ [][NextSerial]_vars

\* ------------------------------------------------- ACNAgent (worker)
\* this.id, as returned by register()
WorkerId == "w1"

\* The job board is in use: the creator 0xAAA has posted two open jobs.
InitWorker ==
  /\ tasks = [t \in 1..2 |->
        [NoTask EXCEPT !.creatorAddress = "0xAAA", !.escrowAmount = 1,
                       !.escrowStatus = "held", !.escrowTxHash = t]]
  /\ postings = [t \in 1..2 |->
        [taskId |-> t, creatorAddress |-> "0xAAA", budget |-> 1, status |-> "open"]]
  /\ bids = <<>>
  /\ activities = SetToBag({NewActivity(EscrowActor, 1, "ESCROW_LOCKED", 0),
                            NewActivity(EscrowActor, 2, "ESCROW_LOCKED", 0)})
  /\ escrows = [k \in 1..MaxJobs |-> NoEscrow]
  /\ escrowOn = "unread"
  /\ ensOn = "unread"
  /\ agents = [a \in AgentIds |->
                 IF a = "w1"
                   THEN [NoAgent EXCEPT !.exists = TRUE, !.ensName = "w1.acn.eth",
                                        !.walletAddress = "0xW1"]
                 ELSE NoAgent]
  /\ started = [k \in BoundedKinds |-> 0]
  /\ now = 0
  /\ ens = [h \in AgentIds |-> NoSubname]
  /\ keyed = {}
  /\ worker = NoWorker
  /\ nitro = NoNitro
  /\ reqs = [s \in Slots |-> Idle]

Polls == 1..MaxPolls

\* GET /api/jobboard: the postings, newest first, each with its status
JobList ==
  [i \in 1..Len(postings) |->
     [id |-> Len(postings) + 1 - i, status |-> postings[Len(postings) + 1 - i].status]]

\* poll(), the for loop up to its next await: jobs that are not open or
\* whose id is in bidJobIds are passed over (continue).  No bid is accepted
\* while the worker polls here, so the branch of an assigned job with an
\* accepted bid of this agent is not taken.
RECURSIVE Skip(_, _)
Skip(jobs, bidJobIds) ==
  IF jobs = <<>> THEN <<>>
  ELSE IF Head(jobs).status # "open" \/ Head(jobs).id \in bidJobIds
         THEN Skip(Tail(jobs), bidJobIds)
       ELSE jobs

\* the poll after the loop has run on to evaluateJob(job) or to its end
Loop(jobs, bidJobIds) ==
  IF Skip(jobs, bidJobIds) = <<>> THEN NoPoll
  ELSE [pc |-> "evaluate", jobs |-> Skip(jobs, bidJobIds)]

\* setInterval(() => this.poll(), POLL_INTERVAL) fires: poll() is called
\* whether or not an earlier call has returned; fetch(/jobboard) is issued
PollFires ==
  /\ worker.fired < MaxPolls
  /\ \E p \in Polls :
        /\ worker.polls[p].pc = "idle"
        /\ \A q \in Polls : q < p => worker.polls[q].pc # "idle"
        /\ worker' = [worker EXCEPT !.fired = @ + 1, !.polls[p].pc = "fetch"]
  /\ UNCHANGED <<store, escrows, escrowOn, ensOn, started, now, ens, keyed, nitro, reqs>>

\* fetch(/jobboard) throws (backend not up): catch {}, poll() returns
PollFetchFails(p) ==
  /\ worker.polls[p].pc = "fetch"
  /\ worker' = [worker EXCEPT !.polls[p] = NoPoll]
  /\ UNCHANGED <<store, escrows, escrowOn, ensOn, started, now, ens, keyed, nitro, reqs>>

\* the job list arrives; the loop runs to the first evaluateJob(job)
PollFetched(p) ==
  /\ worker.polls[p].pc = "fetch"
  /\ worker' = [worker EXCEPT !.polls[p] = Loop(JobList, worker.bidJobIds)]
  /\ UNCHANGED <<store, escrows, escrowOn, ensOn, started, now, ens, keyed, nitro, reqs>>

\* evaluateJob(job) resolves: null -> bidJobIds.add(job.id), continue;
\* an evaluation -> submitBid(job.id, evaluation) sends its POST
PollEvaluated(p, relevant) ==
  /\ worker.polls[p].pc = "evaluate"
  /\ IF relevant
       THEN worker' = [worker EXCEPT !.polls[p].pc = "submit"]
     ELSE LET seen == worker.bidJobIds \cup {Head(worker.polls[p].jobs).id}
          IN worker' = [worker EXCEPT
                          !.bidJobIds = seen,
                          !.polls[p] = Loop(Tail(worker.polls[p].jobs), seen)]
  /\ UNCHANGED <<store, escrows, escrowOn, ensOn, started, now, ens, keyed, nitro, reqs>>

\* bid requests of this agent for a posting that the server is handling or
\* has answered, and the submitBid calls waiting for an answer
BidsInHandling(id) ==
  Cardinality({s \in Slots : reqs[s].kind = "bid" /\ reqs[s].id = id})
BidsAwaited(id) ==
  Cardinality({p \in Polls : /\ worker.polls[p].pc = "submit"
                             /\ Head(worker.polls[p].jobs).id = id})

\* the POST /api/jobboard/:id/bid of a submitBid reaches the server
PollBidReceived(s, id) ==
  /\ BidsInHandling(id) < BidsAwaited(id)
  /\ BidStart(s, id, WorkerId, "bid")

\* the answer of the POST arrives: submitBid returns,
\* bidJobIds.add(job.id), and the loop runs on
PollBidPosted(p, s) ==
  /\ worker.polls[p].pc = "submit"
  /\ reqs[s].kind = "bid" /\ reqs[s].pc = "done"
  /\ reqs[s].id = Head(worker.polls[p].jobs).id
  /\ reqs' = [reqs EXCEPT ![s] = Idle]
  /\ LET seen == worker.bidJobIds \cup {Head(worker.polls[p].jobs).id}
     IN worker' = [worker EXCEPT
                     !.bidJobIds = seen,
                     !.polls[p] = Loop(Tail(worker.polls[p].jobs), seen)]
  /\ UNCHANGED <<store, escrows, escrowOn, ensOn, started, now, ens, keyed, nitro>>

NextWorker ==
  \/ PollFires
  \/ \E p \in Polls : PollFetchFails(p)
  \/ \E p \in Polls : PollFetched(p)
  \/ \E p \in Polls, relevant \in BOOLEAN : PollEvaluated(p, relevant)
  \/ \E s \in Slots, id \in 1..2 : PollBidReceived(s, id)
  \/ \E s \in Slots : BidCreate(s)
  \/ \E s \in Slots : BidActivity(s)
  \/ \E p \in Polls, s \in Slots : PollBidPosted(p, s)

SpecWorker == InitWorker /\ [][NextWorker]_vars

\* ------------------------------------- NitroliteService (state channels)
MAX_RECONNECT_ATTEMPTS == 10

SocketIds == 1..MaxSockets

\* the service has nitro.sockets[i] with its handlers attached; a socket is
\* connecting, open, closing (close() called, close event not yet emitted)
\* or closed

\* connect(): this.ws = new WebSocket(url), handlers attached
connect(n) ==
  [n EXCEPT !.sockets = Append(n.sockets, "connecting"), !.ws = Len(n.sockets) + 1]

\* disconnect(): the timer is cleared, this.ws.close(), this.ws = null,
\* authenticated = false; the handlers stay attached to the closed socket
disconnect(n) ==
  [n EXCEPT !.reconnectTimer = FALSE,
            !.sockets = IF n.ws # 0 /\ n.sockets[n.ws] \in {"connecting", "open"}
                          THEN [n.sockets EXCEPT ![n.ws] = "closing"]
                        ELSE n.sockets,
            !.ws = 0,
            !.authenticated = FALSE]

\* initNitrolite at server startup: instance = new NitroliteService,
\* await instance.connect()
InitNitrolite ==
  /\ nitro.called = "none"
  /\ nitro' = [connect(nitro) EXCEPT !.called = "connect"]
  /\ UNCHANGED <<store, escrows, escrowOn, ensOn, started, now, ens, keyed, worker, reqs>>

\* 'open' event of a socket: authenticate() is issued
SocketOpen(i) ==
  /\ i \in 1..Len(nitro.sockets)
  /\ nitro.sockets[i] = "connecting"
  /\ nitro' = [nitro EXCEPT !.sockets[i] = "open"]
  /\ UNCHANGED <<store, escrows, escrowOn, ensOn, started, now, ens, keyed, worker, reqs>>

\* handleMessage, AuthVerify: authenticated = true, reconnectAttempts = 0
AuthVerify ==
  /\ nitro.ws # 0
  /\ nitro.sockets[nitro.ws] = "open"
  /\ ~nitro.authenticated
  /\ nitro' = [nitro EXCEPT !.authenticated = TRUE, !.reconnectAttempts = 0]
  /\ UNCHANGED <<store, escrows, escrowOn, ensOn, started, now, ens, keyed, worker, reqs>>

\* initNitrolite, catch: authenticate() of the first connect() rejected
\* (wallet not registered, timeout); instance.disconnect() is called
InitFails ==
  /\ nitro.called = "connect"
  /\ nitro.ws = 1
  /\ nitro.sockets[1] = "open"
  /\ ~nitro.authenticated
  /\ nitro' = [disconnect(nitro) EXCEPT !.called = "disconnect"]
  /\ UNCHANGED <<store, escrows, escrowOn, ensOn, started, now, ens, keyed, worker, reqs>>

\* 'close' event of a socket, closed by the peer, by the network or by
\* close(): authenticated = false; unless a timer is pending or the attempts
\* are used up, reconnectAttempts++ and the reconnect timer is set
SocketClose(i) ==
  /\ i \in 1..Len(nitro.sockets)
  /\ nitro.sockets[i] # "closed"
  /\ LET schedule == ~nitro.reconnectTimer /\ nitro.reconnectAttempts < MAX_RECONNECT_ATTEMPTS
     IN nitro' = [nitro EXCEPT
                    !.sockets[i] = "closed",
                    !.authenticated = FALSE,
                    !.reconnectAttempts = IF schedule THEN @ + 1 ELSE @,
                    !.reconnectTimer = IF schedule THEN TRUE ELSE @]
  /\ UNCHANGED <<store, escrows, escrowOn, ensOn, started, now, ens, keyed, worker, reqs>>

\* the reconnect timer fires: reconnectTimer = null, this.connect()
ReconnectTimer ==
  /\ nitro.reconnectTimer
  /\ Len(nitro.sockets) < MaxSockets
  /\ nitro' = connect([nitro EXCEPT !.reconnectTimer = FALSE])
  /\ UNCHANGED <<store, escrows, escrowOn, ensOn, started, now, ens, keyed, worker, reqs>>

\* POST /api/nitrolite/reconnect: svc.reconnect() = disconnect(),
\* reconnectAttempts = 0, connect()
Reconnect ==
  /\ nitro.called # "none"
  /\ ~nitro.authenticated
  /\ Len(nitro.sockets) < MaxSockets
  /\ nitro' = [connect([disconnect(nitro) EXCEPT !.reconnectAttempts = 0])
                 EXCEPT !.called = "reconnect"]
  /\ UNCHANGED <<store, escrows, escrowOn, ensOn, started, now, ens, keyed, worker, reqs>>

NextNitro ==
  \/ InitNitrolite
  \/ \E i \in SocketIds : SocketOpen(i)
  \/ AuthVerify
  \/ InitFails
  \/ \E i \in SocketIds : SocketClose(i)
  \/ ReconnectTimer
  \/ Reconnect

SpecNitro == Init /\ [][NextNitro]_vars

\* the whole coordinator
Next ==
  \/ CreateJobArrives
  \/ BidArrives
  \/ AcceptArrives
  \/ DepositNext
  \/ PatchArrives
  \/ WorkArrives
  \/ RefundArrives
  \/ Crash
  \/ ListArrives
  \/ FeedArrives
  \/ RegisterArrives
  \/ Tick
  \/ KeyArrives
  \/ \E s \in Slots :
        \/ BoardStep(s) \/ PatchStep(s) \/ WorkStep(s) \/ RefundStep(s)
        \/ ListStep(s) \/ RegisterStep(s)

Spec == Init /\ [][Next]_vars

\* -------------------------------------------------------------- claims
TaskIds == 1..Len(tasks)

\* no request is being handled
AtRest == \A s \in Slots : reqs[s].pc = "idle"

\* number of Activity documents of a task with the given action
Activities(taskId, action) ==
  BagCardinality([a \in {x \in BagToSet(activities) : x.taskId = taskId /\ x.action = action}
                    |-> activities[a]])

\* the lifecycle pairs (status, escrowStatus) of the protocol
LegalPairs ==
  {<<"open", "pending_escrow">>, <<"open", "held">>, <<"in-progress", "held">>,
   <<"settlement", "held">>, <<"review", "held">>, <<"completed", "released">>,
   <<"reversed", "refunded">>}

\* C1: every stored Task has a (status, escrowStatus) pair of the
\* lifecycle: (open, pending), (open, held), (in-progress, held),
\* (settlement, held), (review, held), (completed, released) or
\* (reversed, refunded), whatever requests were handled.
C1_LegalPairs ==
  \A t \in TaskIds : <<tasks[t].status, tasks[t].escrowStatus>> \in LegalPairs

\* accepted bids of a posting
AcceptedBids(jobId) == {b \in 1..Len(bids) : bids[b].jobId = jobId /\ bids[b].accepted}

\* C2: a posting is assigned exactly when one and only one bid of its jobId
\* is accepted, so no posting has two accepted bids.  Stated for the states
\* in which no request is in flight.
C2_AssignedIffOneAccepted ==
  AtRest =>
    \A p \in 1..Len(postings) :
      (postings[p].status = "assigned") <=> (Cardinality(AcceptedBids(p)) = 1)

\* C3: when two accept requests on one posting with different bidIds are
\* handled concurrently, exactly one of them wins: at the moment one of
\* them is answered 200 while the other is still being handled, the two
\* bids are not both stored as accepted.
C3_OneAcceptWins ==
  \A s, r \in Slots :
    ( /\ s # r
      /\ reqs[s].kind = "accept" /\ reqs[s].pc = "done" /\ reqs[s].code = 200
      /\ reqs[r].kind = "accept" /\ reqs[r].pc \notin {"idle", "done"}
      /\ reqs[r].id = reqs[s].id
      /\ reqs[r].body.bidId # reqs[s].body.bidId
      /\ Found(bids, reqs[r].body.bidId) )
    => ~(bids[reqs[s].body.bidId].accepted /\ bids[reqs[r].body.bidId].accepted)

\* wallets compared as the protocol does, without regard to case
SameWallet(a, b) == toLowerCase(a) = toLowerCase(b)

\* r is a well-formed accept request on an existing posting whose caller
\* wallet is not the creator of the posting's task
ForeignAccept(r) ==
  /\ r.kind = "accept"
  /\ Found(postings, r.id)
  /\ r.body.bidId # 0
  /\ r.body.callerAddress # ""
  /\ ~SameWallet(r.body.callerAddress, tasks[postings[r.id].taskId].creatorAddress)

C4_Answered403 ==
  \A s \in Slots : (reqs[s].pc = "done" /\ ForeignAccept(reqs[s])) => reqs[s].code = 403

C4_NothingWritten ==
  \A s \in Slots :
    (reqs'[s] # reqs[s] /\ ForeignAccept(reqs[s]'))
      => UNCHANGED <<tasks, postings, bids, activities>>

\* C4: an accept request whose caller wallet differs, case-insensitively,
\* from the creator of the task is answered 403, and no step of its
\* handling changes the Task, the JobPosting or any Bid.
C4_ForeignAcceptRejected == []C4_Answered403 /\ [][C4_NothingWritten]_vars

\* a stranger's accept of an existing bid has been answered 403
C4_Witness ==
  \E s \in Slots :
    /\ reqs[s].pc = "done" /\ ForeignAccept(reqs[s]) /\ reqs[s].code = 403
    /\ Found(bids, reqs[s].body.bidId)
    /\ ~bids[reqs[s].body.bidId].accepted

\* r is a refund request on an existing task whose caller wallet is absent
\* or is not the creator of the task
ForeignRefund(r) ==
  /\ r.kind = "refund"
  /\ Found(tasks, r.id)
  /\ \/ r.body.callerAddress = ""
     \/ ~SameWallet(r.body.callerAddress, tasks[r.id].creatorAddress)

C5_Answered403 ==
  \A s \in Slots : (reqs[s].pc = "done" /\ ForeignRefund(reqs[s])) => reqs[s].code = 403

\* escrow.refund is awaited only by requests of the creator
C5_NoRefundIssued ==
  \A s \in Slots : (reqs[s].kind = "refund" /\ reqs[s].pc = "refund") => ~ForeignRefund(reqs[s])

C5_NothingWritten ==
  \A s \in Slots :
    (reqs'[s] # reqs[s] /\ ForeignRefund(reqs[s]'))
      => UNCHANGED <<tasks, activities, escrows>>

\* every refund executed by the contract is a step of a creator's request
C5_RefundOnBehalfOfCreator ==
  \A k \in JobIds :
    (escrows'[k].refunded /\ ~escrows[k].refunded)
      => \E s \in Slots :
           /\ reqs[s].kind = "refund" /\ reqs[s].id = k /\ reqs[s].pc = "refund"
           /\ reqs'[s] # reqs[s]
           /\ ~ForeignRefund(reqs[s])

\* C5: the escrow's refund is invoked only on behalf of a refund request
\* whose caller wallet equals the task's creator; a refund request with
\* another caller wallet, or none, is answered 403, invokes no refund and
\* leaves the task unchanged.
C5_ForeignRefundRejected ==
  /\ [](C5_Answered403 /\ C5_NoRefundIssued)
  /\ [][C5_NothingWritten /\ C5_RefundOnBehalfOfCreator]_vars

\* a stranger's refund request on a task whose escrow could be refunded has
\* been answered 403
C5_Witness ==
  \E s \in Slots :
    /\ reqs[s].pc = "done" /\ ForeignRefund(reqs[s]) /\ reqs[s].code = 403
    /\ tasks[reqs[s].id].escrowStatus = "held"
    /\ Settleable(escrows[taskIdToBytes32(reqs[s].id)])
    /\ escrowOn = "on"

\* r is a refund request of the creator on an existing task
CreatorRefund(r) ==
  /\ r.kind = "refund"
  /\ Found(tasks, r.id)
  /\ r.body.callerAddress # ""
  /\ SameWallet(r.body.callerAddress, tasks[r.id].creatorAddress)

C6_Received ==
  \A s \in Slots :
    ( /\ reqs[s].pc = "idle"
      /\ CreatorRefund(reqs[s]')
      /\ tasks[reqs'[s].id].escrowStatus # "held" )
    => /\ reqs'[s].pc = "done"
       /\ reqs'[s].code = 400
       /\ UNCHANGED <<tasks, activities, escrows>>

\* C6: a refund request of the creator on a task whose escrowStatus is not
\* held is answered 400 at once: no refund is invoked and the task's
\* status, escrowStatus and activity log stay as they are.
C6_NotHeldRejected == [][C6_Received]_vars

\* the creator's refund request on a settled task has been answered 400
C6_Witness ==
  \E s \in Slots :
    /\ reqs[s].pc = "done" /\ CreatorRefund(reqs[s]) /\ reqs[s].code = 400
    /\ tasks[reqs[s].id].escrowStatus \in {"released", "refunded"}

\* the task.save() after a successful refund
C7_Saved ==
  \A s \in Slots :
    ( /\ reqs[s].kind = "refund" /\ reqs[s].pc = "save" /\ reqs'[s].pc # "save"
      /\ reqs[s].base.status \in {"open", "in-progress"} )
    => LET t == tasks'[reqs[s].id] IN
       /\ reqs[s].tx # 0
       /\ t.status = "reversed"
       /\ t.escrowStatus = "refunded"
       /\ t.settlementHash = reqs[s].tx
       /\ t.settledAt # 0

\* the response of a refund request whose backend refund succeeded
C7_Answered ==
  \A s \in Slots :
    (reqs[s].kind = "refund" /\ reqs[s].pc = "done" /\ reqs[s].tx # 0)
    => /\ reqs[s].code = 200
       /\ reqs[s].task.status = "reversed"
       /\ reqs[s].task.escrowStatus = "refunded"
       /\ tasks[reqs[s].id].escrowStatus = "refunded"
       /\ tasks[reqs[s].id].settlementHash = reqs[s].tx
       /\ Activities(reqs[s].id, "REFUND_PROCESSED") >= 1

\* C7: a refund request of the creator on a task that is open or
\* in-progress with escrow held, whose backend refund succeeds, is answered
\* 200; the task is stored with status reversed and escrowStatus refunded,
\* the refund receipt is its settlement reference, and a REFUND_PROCESSED
\* activity is recorded.
C7_RefundSettles == []C7_Answered /\ [][C7_Saved]_vars

\* a refund has been answered 200 and the task is stored reversed/refunded
C7_Witness ==
  \E s \in Slots :
    /\ reqs[s].kind = "refund" /\ reqs[s].pc = "done" /\ reqs[s].code = 200
    /\ tasks[reqs[s].id].status = "reversed"
    /\ tasks[reqs[s].id].escrowStatus = "refunded"
    /\ tasks[reqs[s].id].settlementHash = RefundTx(reqs[s].id)
    /\ Activities(reqs[s].id, "REFUND_PROCESSED") = 1

\* the release of task t has succeeded for a work submission
C8_ReleaseSucceeded(t) ==
  \E s \in Slots : reqs[s].kind = "work" /\ reqs[s].id = t /\ reqs[s].pc = "saveSettled"

\* task t is stored as settled by its release
C8_Settled(t) ==
  /\ Found(tasks, t)
  /\ tasks[t].status = "completed"
  /\ tasks[t].escrowStatus = "released"
  /\ tasks[t].settlementHash = ReleaseTx(t)
  /\ tasks[t].settledAt # 0

\* C8: when work is submitted on a task with escrow held and the backend
\* release succeeds, the task is eventually stored with status completed
\* and escrowStatus released, with the release receipt and the settlement
\* time.
C8_ReleaseLeadsToCompleted ==
  \A t \in JobIds : C8_ReleaseSucceeded(t) ~> C8_Settled(t)

\* a task that had been put in progress is settled by a work submission
C8_Witness ==
  \E s \in Slots :
    /\ reqs[s].kind = "work" /\ reqs[s].pc = "activitySettled"
    /\ C8_Settled(reqs[s].id)
    /\ Activities(reqs[s].id, "STATUS_CHANGED_TO_IN-PROGRESS") = 1

\* C9: however often work is submitted for a task, one after the other or
\* concurrently, at most one PAYMENT_SETTLED activity exists for it.
C9_AtMostOnePaymentSettled ==
  \A t \in TaskIds : Activities(t, "PAYMENT_SETTLED") <= 1

\* two work submissions of a task have been handled and one payment settled
C9_Witness ==
  /\ AtRest
  /\ \E t \in TaskIds :
       /\ Len(tasks[t].workResults) = 2
       /\ Activities(t, "PAYMENT_SETTLED") = 1

\* C10: in every reachable state a task that is completed and released has
\* exactly one PAYMENT_SETTLED activity, and a task that is reversed and
\* refunded has exactly one REFUND_PROCESSED activity.
C10_ExactlyOneSettlementActivity ==
  \A t \in TaskIds :
    /\ (tasks[t].status = "completed" /\ tasks[t].escrowStatus = "released")
         => Activities(t, "PAYMENT_SETTLED") = 1
    /\ (tasks[t].status = "reversed" /\ tasks[t].escrowStatus = "refunded")
         => Activities(t, "REFUND_PROCESSED") = 1

\* C11: a release that fails because the backend is unavailable, fewer
\* times than the retry limit, is retried: the handler of a work
\* submission whose release attempt fails while the contract would still
\* settle the escrow does not give the settlement up.
C11_Step ==
  \A s \in Slots :
    ( /\ reqs[s].kind = "work" /\ reqs[s].pc = "release"
      /\ reqs'[s] # reqs[s]
      /\ Settleable(escrows[taskIdToBytes32(reqs[s].id)]) )
    => reqs'[s].pc \in {"release", "saveSettled"}

C11_TransientFailureRetried == [][C11_Step]_vars

\* the task.save() that ends a settlement attempt whose release failed
C12_Saved ==
  \A s \in Slots :
    (reqs[s].kind = "work" /\ reqs[s].pc = "saveFailed" /\ reqs'[s] # reqs[s])
    => /\ tasks'[reqs[s].id].status = "review"
       /\ tasks'[reqs[s].id].escrowStatus = "held"

\* the response of a work submission whose release failed
C12_Answered ==
  \A s \in Slots :
    ( /\ reqs[s].kind = "work" /\ reqs[s].pc = "done"
      /\ escrowOn = "on" /\ reqs[s].tx = 0 /\ reqs[s].task.status = "review" )
    => Activities(reqs[s].id, "SETTLEMENT_FAILED") >= 1

\* C12: when a settlement attempt of a task in status settlement ends
\* without a successful release, the task is stored with status review and
\* escrowStatus still held, and a SETTLEMENT_FAILED activity is recorded.
C12_FailedSettlementToReview == []C12_Answered /\ [][C12_Saved]_vars

\* the server has restarted with task t committed to settlement and its
\* escrow neither released nor refunded
C13_Stranded(t) ==
  /\ AtRest
  /\ Found(tasks, t)
  /\ tasks[t].status = "settlement"
  /\ tasks[t].escrowStatus = "held"
  /\ Len(tasks[t].workResults) >= 1
  /\ Settleable(escrows[taskIdToBytes32(t)])
  /\ escrowOn = "on"

\* C13: when the coordinator crashes after committing a work submission
\* (status settlement) and before the release, the restarted coordinator
\* eventually carries the settlement out: the task does not stay in status
\* settlement for ever.
C13_RestartRecovers ==
  \A t \in JobIds :
    C13_Stranded(t) ~> ~(Found(tasks, t) /\ tasks[t].status = "settlement")

\* C14: a task created through the job board starts open with escrow
\* pending, and its escrowStatus is held only after a deposit for it has
\* succeeded: a task whose deposit failed or was never made is not held.
C14_HeldOnlyAfterDeposit ==
  \A t \in TaskIds :
    tasks[t].escrowStatus = "held" => escrows[taskIdToBytes32(t)].amount > 0

\* the accept handler has read the task of a request by the creator
C15_TaskRead ==
  \A s \in Slots :
    ( /\ reqs[s].kind = "accept" /\ reqs[s].pc = "loadTask"
      /\ reqs'[s] # reqs[s]
      /\ LET t == tasks[reqs[s].posting.taskId] IN
           ~(t.status = "open" /\ t.escrowStatus = "held") )
    => reqs'[s].pc = "done" /\ reqs'[s].code \in {400, 403, 404, 409}

\* C15: an accept request takes effect only on a task that is open with
\* escrow held; on a task in any other state the handler rejects it when
\* it has read the task, before any Bid, JobPosting or Task is written.
C15_AcceptOnlyWhenOpen == [][C15_TaskRead]_vars

\* a well-formed work submission is received for a task that is not in
\* progress with escrow held
C16_Received ==
  \A s \in Slots :
    ( /\ reqs[s].pc = "idle"
      /\ reqs'[s].kind = "work"
      /\ Found(tasks, reqs'[s].id)
      /\ LET t == tasks[reqs'[s].id] IN
           ~(t.status = "in-progress" /\ t.escrowStatus = "held") )
    => reqs'[s].pc = "done" /\ reqs'[s].code = 400

\* C16: a work submission takes effect only on a task that is in-progress
\* with escrow held; on a task in any other state it is rejected with 400
\* at once, so that no work result is appended, the status stays and no
\* settlement starts.
C16_WorkOnlyWhenInProgress == [][C16_Received]_vars

\* C17: once a task is completed (escrow released) or reversed (escrow
\* refunded), its status and escrowStatus never change again, whatever
\* requests arrive.
C17_Step ==
  \A t \in TaskIds :
    <<tasks[t].status, tasks[t].escrowStatus>> \in
        {<<"completed", "released">>, <<"reversed", "refunded">>}
      => /\ tasks'[t].status = tasks[t].status
         /\ tasks'[t].escrowStatus = tasks[t].escrowStatus

C17_TerminalStatesFinal == [][C17_Step]_vars

\* C18: after any sequence of settlements every agent has a reputation
\* from 0 to 100 and counters tasksCompleted and tasksFailed that are not
\* negative.
C18_ReputationInRange ==
  \A a \in AgentIds :
    /\ 0 <= agents[a].reputation /\ agents[a].reputation <= 100
    /\ agents[a].tasksCompleted >= 0
    /\ agents[a].tasksFailed >= 0

\* a settlement has been credited to a worker whose reputation was 100
C18_Witness ==
  \E a \in Workers : agents[a].reputation = 100 /\ agents[a].tasksCompleted = 26

\* tasks whose payment has been settled
Settlements == Cardinality({t \in TaskIds : Activities(t, "PAYMENT_SETTLED") >= 1})

\* C19: every successful settlement of a task raises the worker's stored
\* tasksCompleted by exactly 1 and its stored reputation by 2, up to 100:
\* when no request is in flight, a worker registered with the defaults has
\* as many completed tasks as settlements were paid, and the reputation
\* that goes with them.
C19_EverySettlementCredited ==
  AtRest =>
    \A a \in Workers :
      /\ agents[a].tasksCompleted = NoAgent.tasksCompleted + Settlements
      /\ agents[a].reputation =
           IF NoAgent.reputation + 2 * Settlements > 100 THEN 100
           ELSE NoAgent.reputation + 2 * Settlements

\* the agent.save() of a settlement
C20_Step ==
  \A s \in Slots :
    (reqs[s].kind = "work" /\ reqs[s].pc = "saveAgent" /\ reqs'[s] # reqs[s])
    => agents'[reqs[s].body.agentId].tasksCompleted =
         agents[reqs[s].body.agentId].tasksCompleted + 1

\* C20: settlements of distinct tasks that credit the same worker are
\* linearized, in any interleaving: each of them raises the stored
\* tasksCompleted by one and none is lost.
C20_CreditsLinearized == [][C20_Step]_vars

\* request r awaits an escrow action (release or refund) for task t
EscrowActionInFlight(r, t) ==
  /\ r.id = t
  /\ \/ r.kind = "work" /\ r.pc = "release"
     \/ r.kind = "refund" /\ r.pc = "refund"

\* C21: at no time are two escrow actions (release and/or refund) in
\* flight for the same task: a work submission and a refund request for
\* one task are processed one after the other.
C21_OneEscrowActionPerTask ==
  \A t \in TaskIds : \A s, r \in Slots :
    (EscrowActionInFlight(reqs[s], t) /\ EscrowActionInFlight(reqs[r], t)) => s = r

\* positions at which a handler awaits its Activity.create
ActivityPcs == {"activity", "activitySettled", "activityFailed"}

\* a step commits a change of a task's status or escrowStatus
C26_Step ==
  \A t \in TaskIds :
    ( \/ tasks'[t].status # tasks[t].status
      \/ tasks'[t].escrowStatus # tasks[t].escrowStatus )
    => \E s \in Slots :
         /\ reqs'[s] # reqs[s]
         /\ reqs[s].pc \notin ActivityPcs
         /\ reqs'[s].pc \in ActivityPcs

\* C26: every committed change of a task's status or escrowStatus is
\* logged by exactly one Activity entry: the handler that commits the
\* change goes on to create the entry for it.
C26_EveryChangeLogged == [][C26_Step]_vars

\* C27: a posting is open exactly when its task is open, also after the
\* task has left open by acceptance, refund or status override.  Stated for
\* the states in which no request is in flight.
C27_PostingMirrorsTask ==
  AtRest =>
    \A p \in 1..Len(postings) :
      (postings[p].status = "open") <=> (tasks[postings[p].taskId].status = "open")

\* C30: only an admin can override a task's status.  The status-override
\* handler reads no credential, so every request it handles comes from a
\* caller not known to be an admin: no step of such a request changes a
\* task.
C30_Step ==
  \A s \in Slots :
    (reqs[s].kind = "patch" /\ reqs'[s] # reqs[s]) => UNCHANGED tasks

C30_OverrideAdminOnly == [][C30_Step]_vars

\* a job-creation request with a budget that is not positive is received
C29_Received ==
  \A s \in Slots :
    ( /\ reqs[s].pc = "idle"
      /\ reqs'[s].kind = "createJob"
      /\ reqs'[s].body.budget <= 0 )
    => /\ reqs'[s].pc = "done"
       /\ reqs'[s].code = 400
       /\ UNCHANGED <<tasks, postings, activities>>

\* C29: a job-creation request whose budget is zero or negative is
\* answered 400 and creates no Task, no JobPosting and no Activity.
C29_BudgetMustBePositive == [][C29_Received]_vars

\* C28: on every settlement the recipient of the release is the wallet of
\* the worker assigned to the task, never another address.
C28_ReleasePaysWorker ==
  \A t \in TaskIds :
    (escrows[taskIdToBytes32(t)].released /\ Len(tasks[t].assignedAgents) >= 1)
      => escrows[taskIdToBytes32(t)].paidTo = agents[tasks[t].assignedAgents[1]].walletAddress

\* res.json({...task.toObject(), id}) of the work handler: the workResults of
\* the body end with the entry the handler pushed to its copy
WorkResultsSent(s) ==
  IF reqs[s].kind = "work" /\ reqs[s].pc = "done" /\ reqs[s].code = 200
    THEN <<[agentId |-> reqs[s].body.agentId, result |-> reqs[s].body.result]>>
    ELSE <<>>

\* C24: no response sent to a caller who has not presented the wallet of the
\* task's creator contains workResults; a work submission presents an agentId
\* and no wallet.
C24_ResultsOnlyToCreator ==
  \A s \in Slots :
    (reqs[s].kind = "work" /\ reqs[s].pc = "done" /\ reqs[s].code = 200
       /\ ~SameWallet(reqs[s].body.callerAddress, tasks[reqs[s].id].creatorAddress))
      => WorkResultsSent(s) = <<>>

\* C23: whatever text W is supplied as the address, the task list returns
\* only tasks whose creator equals W case-insensitively, the activity feed
\* only activities of such tasks, and both return [] when no address is given.
C23_ListsOnlyOwnTasks ==
  \A s \in Slots :
    (reqs[s].pc = "done" /\ reqs[s].code = 200)
      => /\ reqs[s].kind = "list" =>
              \A t \in reqs[s].listed :
                 FoldAll(tasks[t].creatorAddress) = FoldAll(reqs[s].body.callerAddress)
         /\ reqs[s].kind = "feed" =>
              \A a \in reqs[s].listed :
                 FoldAll(tasks[a.taskId].creatorAddress) = FoldAll(reqs[s].body.callerAddress)
         /\ (reqs[s].kind \in {"list", "feed"} /\ reqs[s].body.callerAddress = <<>>)
              => reqs[s].listed = {}

\* the Activity documents a step inserts
Inserted == {a \in BagToSet(activities') : CopiesIn(a, activities') > CopiesIn(a, activities)}

\* an inserted entry is stamped no earlier than the entries of its task that
\* were committed before it
C25_Step ==
  \A a \in Inserted :
    \A b \in BagToSet(activities) :
      b.taskId = a.taskId => b.timestamp <= a.timestamp

\* C25: the Activity entries of a task carry non-decreasing timestamps in
\* the order in which they were committed, also when requests for the same
\* task are handled concurrently.
C25_TimestampsFollowCommits == [][C25_Step]_vars

\* C22: registering an agent twice with the same handle, one request after
\* the other or both at once, and whether or not the first identity
\* registration succeeded, yields the same Agent document and calls the
\* identity backend's register at most once in total.
C22_RegisterAtMostOnce ==
  \A h \in AgentIds : ens[h].calls <= 1

\* request s awaited escrow.refund and the call failed: the step left the
\* contract as it was
C31_RefundFailed(s) ==
  /\ reqs[s].kind = "refund"
  /\ reqs[s].pc = "refund"
  /\ reqs'[s] # reqs[s]
  /\ escrows' = escrows

C31_Step ==
  \A s \in Slots :
    C31_RefundFailed(s)
      => /\ reqs'[s].pc = "done"
         /\ reqs'[s].code = 500
         /\ UNCHANGED <<tasks, activities>>

\* C31: when the backend's refund call fails, the request is answered with
\* an error, the stored task keeps its status and escrowStatus and no
\* REFUND_PROCESSED activity is appended, so that the creator can ask again.
C31_FailedRefundChangesNothing == [][C31_Step]_vars

\* a refund was answered 500 while the task is stored as held and the
\* contract still holds the deposit: a new refund request passes validation
C31_Witness ==
  \E s \in Slots :
    /\ reqs[s].kind = "refund"
    /\ reqs[s].pc = "done"
    /\ reqs[s].code = 500
    /\ Refundable(tasks[reqs[s].id])
    /\ Settleable(escrows[taskIdToBytes32(reqs[s].id)])
    /\ Activities(reqs[s].id, "REFUND_PROCESSED") = 0

\* the step in which the ENS update of request s resolves or fails
C32_EnsUpdateReturned(s) ==
  /\ reqs[s].kind = "work"
  /\ reqs[s].pc = "ensUpdate"
  /\ reqs'[s] # reqs[s]

C32_Step ==
  \A s \in Slots :
    C32_EnsUpdateReturned(s)
      => /\ reqs'[s].pc = "done"
         /\ reqs'[s].code = 200
         /\ UNCHANGED <<tasks, activities, agents, escrows>>

\* C32: whether the identity update that follows a successful release
\* succeeds or fails, the request ends with 200 and the stored task, its
\* activities and the agent's counters stay as the settlement left them.
C32_IdentityFailureNonFatal == [][C32_Step]_vars

\* a work submission that went through the release, the agent's save and
\* the ENS update has been answered; the settlement and the counters the
\* request saved are in the store
C32_Witness ==
  \E s \in Slots :
    /\ reqs[s].kind = "work"
    /\ reqs[s].pc = "done"
    /\ reqs[s].code = 200
    /\ reqs[s].agent.exists
    /\ tasks[reqs[s].id].status = "completed"
    /\ tasks[reqs[s].id].escrowStatus = "released"
    /\ Activities(reqs[s].id, "PAYMENT_SETTLED") = 1
    /\ agents[reqs[s].body.agentId].tasksCompleted = reqs[s].agent.tasksCompleted
    /\ agents[reqs[s].body.agentId].reputation = reqs[s].agent.reputation

\* position of an escrowStatus on the path pending -> held -> released or
\* refunded (TaskSchema's enum)
EscrowRank(escrowStatus) ==
  CASE escrowStatus = "none" -> 0
    [] escrowStatus = "pending_escrow" -> 1
    [] escrowStatus = "held" -> 2
    [] OTHER -> 3

C33_Step ==
  \A t \in TaskIds :
    /\ EscrowRank(tasks'[t].escrowStatus) >= EscrowRank(tasks[t].escrowStatus)
    /\ tasks[t].escrowStatus \in {"released", "refunded"}
         => tasks'[t].escrowStatus = tasks[t].escrowStatus

\* C33: the stored escrowStatus of a task only moves forward and, once
\* released or refunded, never changes again, in any interleaving of work
\* submissions, refunds and status overrides.
C33_EscrowStatusForward == [][C33_Step]_vars

\* the task is stored as refunded while a work submission that read it as
\* held awaits its release
C33_Witness ==
  \E t \in TaskIds, s \in Slots :
    /\ tasks[t].escrowStatus = "refunded"
    /\ reqs[s].kind = "work"
    /\ reqs[s].id = t
    /\ reqs[s].pc = "release"

\* C34: the encoding of a Task id into the fixed-width escrow key is
\* deterministic and injective over the Task ids: an id has one key, of
\* KeyLen digits, and two distinct ids never have the same key.
C34_KeysInjective ==
  \A p \in keyed, q \in keyed :
    /\ Len(p[2]) = KeyLen
    /\ p[1] = q[1] => p[2] = q[2]
    /\ p[1] # q[1] => p[2] # q[2]

\* the keys of two ids that differ in one digit only have been computed
C34_Witness ==
  \E p \in keyed, q \in keyed :
    /\ p[1] # q[1]
    /\ p[1][1] = q[1][1]

C35_Settled(e) == e.released \/ e.refunded

\* one settlement at most, which transferred the deposit, no more, no less
C35_Paid(e) ==
  /\ ~(e.released /\ e.refunded)
  /\ e.paid = IF C35_Settled(e) THEN e.amount ELSE 0

C35_Step ==
  \A k \in DOMAIN escrows :
    /\ C35_Paid(escrows[k])
    /\ C35_Paid(escrows'[k])
    /\ C35_Settled(escrows[k]) => escrows'[k] = escrows[k]

\* C35: for each key, over any sequence of deposit, release and refund
\* calls, at most one release or refund succeeds, it transfers exactly the
\* amount deposited, and no later call changes the key.
C35_OneSettlementPerKey == [][C35_Step]_vars

\* one key released to the worker and the other refunded, each with a
\* deposit of its own that was paid out
C35_Witness ==
  /\ escrows[1].released
  /\ escrows[1].paidTo = "0xW1"
  /\ escrows[1].paid = 2
  /\ escrows[2].refunded
  /\ escrows[2].paid = 1

\* C36: an accept request on a posting that names a bid of another posting
\* is rejected, so every worker assigned to a task is the worker of a bid
\* submitted under that task's own posting.
C36_AssignedWorkerBidOnPosting ==
  \A t \in TaskIds :
    \A i \in 1..Len(tasks[t].assignedAgents) :
      \E b \in 1..Len(bids) :
        /\ bids[b].agentId = tasks[t].assignedAgents[i]
        /\ postings[bids[b].jobId].taskId = t

\* C37: a task is stored as released only if the contract released its
\* escrow and as refunded only if the contract refunded it; and once the
\* requests have been answered, a payout of the contract is in the store.
C37_StoredStatusIsPayout ==
  \A t \in TaskIds :
    LET e == escrows[taskIdToBytes32(t)] IN
    /\ tasks[t].escrowStatus = "released" => e.released
    /\ tasks[t].escrowStatus = "refunded" => e.refunded
    /\ AtRest => /\ e.released => tasks[t].escrowStatus = "released"
                 /\ e.refunded => tasks[t].escrowStatus = "refunded"

\* a work submission and a refund of the same task both reached the
\* contract: the refund went through and the release failed
C37_Witness ==
  \E t \in TaskIds :
    /\ AtRest
    /\ tasks[t].escrowStatus = "refunded"
    /\ escrows[taskIdToBytes32(t)].refunded
    /\ Activities(t, "SETTLEMENT_FAILED") >= 1

\* positions at which a handler has only read
ReadPcs == {"idle", "loadTask", "loadBid"}

\* request s is answered 400, 403 or 404 in this step
C38_Rejected(s) ==
  /\ reqs[s].pc # "done"
  /\ reqs'[s].pc = "done"
  /\ reqs'[s].code \in {400, 403, 404}

C38_Step ==
  \A s \in Slots :
    C38_Rejected(s)
      => /\ reqs[s].pc \in ReadPcs
         /\ UNCHANGED <<tasks, postings, bids, activities, agents>>

\* C38: a request answered with 400, 403 or 404 has written nothing: it is
\* answered from a position at which its handler has only read, and the
\* answering step leaves Agents, Tasks, JobPostings, Bids and Activities
\* as they were.
C38_RejectionWritesNothing == [][C38_Step]_vars

\* an accept request of the creator was answered 404 for its bid, after
\* the posting and the task had been read
C38_Witness ==
  \E s \in Slots :
    /\ reqs[s].kind = "accept"
    /\ reqs[s].pc = "done"
    /\ reqs[s].code = 404
    /\ Found(postings, reqs[s].id)
    /\ SameWallet(reqs[s].body.callerAddress, tasks[reqs[s].posting.taskId].creatorAddress)

\* bids of the polling agent stored under a posting
BidsOfWorker(id) ==
  Cardinality({b \in 1..Len(bids) : bids[b].jobId = id /\ bids[b].agentId = WorkerId})

\* C39: a worker agent submits at most one bid per job posting over its
\* whole run, also when a poll cycle (evaluation plus submission) outlasts
\* the poll interval so that successive polls overlap: no posting ever holds
\* two bids of the agent.
C39_OneBidPerPosting == \A id \in 1..Len(postings) : BidsOfWorker(id) <= 1

\* C40: after disconnect() has been called on the state-channel service, the
\* service opens no new connection unless connect() or reconnect() is called
\* explicitly: while disconnect() is the last call made, no step creates a
\* socket, so the close event of the socket that disconnect() closed
\* schedules no automatic reconnect that is carried out.
C40_Step ==
  (nitro.called = "disconnect" /\ nitro'.called = "disconnect")
    => Len(nitro'.sockets) = Len(nitro.sockets)
C40_NoConnectionAfterDisconnect == [][C40_Step]_vars

====
